---- MODULE Spec2Model ----
(***************************************************************************)
(* A model of the Wabbit toolchain (povilasb/wabbit-lang): the lexer, the  *)
(* recursive-descent parser, the formatter and the tree-walking            *)
(* interpreter.                                                            *)
(*                                                                         *)
(* Text is a sequence of one-character strings.  Python's 0-based indices  *)
(* are kept: At(text, n) is Python's text[n], Slice(text, a, b) is         *)
(* text[a:b].                                                              *)
(***************************************************************************)
EXTENDS Integers, Sequences, FiniteSets, TLC

VARIABLES
    \* tokenize: the source text, the cursor, the tokens so far, where the
    \* call stands (scan, returned, raised) and the exception raised
    text, pos, tokens, lex_pc, lex_exc,
    \* _parse_program: the token list, where the call stands (input, returned,
    \* raised) and its result
    p_tokens, p_pc, p_result,
    \* the round trip parse_source, format, parse_source: the source text,
    \* where it stands, the first tree, the formatted text, the second result
    rt_src, rt_pc, rt_ast, rt_text, rt_ast2,
    \* interpret: the program, the index of the next top-level statement,
    \* where the call stands (running, returned, raised), _exec_ctx, the
    \* functions dict all contexts share, the printed output, the exception
    \* raised and the record of what was executed
    i_prog, i_next, i_pc, i_exec_ctx, i_functions, i_out, i_exc, i_trace,
    \* Compiler: the program, the index of the next top-level statement, where
    \* the emission stands (running, returned, raised), _global_variables
    \* (the type each slot holds), _functions (the signature of each
    \* function), the instructions built so far, the exception raised, the
    \* basic blocks of the module (the function each belongs to and what was
    \* built into it) and the block _main_builder is positioned at
    e_prog, e_next, e_pc, e_variables, e_functions, e_instrs, e_exc,
    e_blocks, e_main_block,
    \* format: the tree handed to it, the package whose format is called,
    \* where the call stands (called, returned, raised) and the text returned
    f_node, f_package, f_pc, f_text,
    \* the construction of an operator node of the model: the class and the
    \* fields handed to it, where the call stands (called, returned, raised)
    \* and the node built
    a_class, a_fields, a_pc, a_node

lexVars == <<text, pos, tokens, lex_pc, lex_exc>>

parserVars == <<p_tokens, p_pc, p_result>>

roundTripVars == <<rt_src, rt_pc, rt_ast, rt_text, rt_ast2>>

interpVars ==
    <<i_prog, i_next, i_pc, i_exec_ctx, i_functions, i_out, i_exc, i_trace>>

emitVars ==
    <<e_prog, e_next, e_pc, e_variables, e_functions, e_instrs, e_exc,
      e_blocks, e_main_block>>

formatVars == <<f_node, f_package, f_pc, f_text>>

astVars == <<a_class, a_fields, a_pc, a_node>>

vars ==
    <<lexVars, parserVars, roundTripVars, interpVars, emitVars, formatVars, astVars>>

\* a component that is not running
LexIdle ==
    text = <<>> /\ pos = 0 /\ tokens = <<>> /\ lex_pc = "idle" /\ lex_exc = "none"

ParserIdle == p_tokens = <<>> /\ p_pc = "idle" /\ p_result = <<>>

RoundTripIdle ==
    /\ rt_src = <<>> /\ rt_pc = "idle"
    /\ rt_ast = <<>> /\ rt_text = <<>> /\ rt_ast2 = <<>>

InterpIdle ==
    /\ i_prog = <<>> /\ i_next = 0 /\ i_pc = "idle"
    /\ i_exec_ctx = <<>> /\ i_functions = <<>> /\ i_out = <<>>
    /\ i_exc = "none" /\ i_trace = <<>>

EmitIdle ==
    /\ e_prog = <<>> /\ e_next = 0 /\ e_pc = "idle"
    /\ e_variables = <<>> /\ e_functions = <<>> /\ e_instrs = <<>>
    /\ e_exc = "none" /\ e_blocks = <<>> /\ e_main_block = 0

FormatIdle ==
    f_node = <<>> /\ f_package = "none" /\ f_pc = "idle" /\ f_text = <<>>

AstIdle == a_class = "none" /\ a_fields = <<>> /\ a_pc = "idle" /\ a_node = <<>>

(***************************************************************************)
(* Bounds of the model.                                                    *)
(***************************************************************************)
\* the longest source text is the concatenation of MaxPieces pieces
MaxPieces == 3

\* the longest operator chain handed to the parser has MaxOps binary operators
MaxOps == 2

\* a source expression of the round trip has at most MaxNodes operators and
\* pairs of parentheses
MaxNodes == 3

\* a function body or loop body of an interpreted program is made of at most
\* MaxBody pieces
MaxBody == 2

(***************************************************************************)
(* Python string primitives.                                               *)
(***************************************************************************)
Min(a, b) == IF a < b THEN a ELSE b

Max(a, b) == IF a > b THEN a ELSE b

\* text[n], defined for 0 <= n < len(text); otherwise Python raises IndexError
At(s, n) == s[n + 1]

InRange(s, n) == 0 <= n /\ n < Len(s)

\* text[a:b] for non-negative a, b: clamped, empty when a >= b
Slice(s, a, b) ==
    LET hi == Min(b, Len(s))
    IN  IF a >= hi THEN <<>> ELSE [i \in 1..(hi - a) |-> s[a + i]]

\* text[a:]
SliceFrom(s, a) == Slice(s, a, Len(s))

Digits == {"0", "1", "2", "3", "4", "5", "6", "7", "8", "9"}

Letters == {"a", "b", "c", "d", "e", "f", "g", "h", "i", "j", "k", "l", "m",
            "n", "o", "p", "q", "r", "s", "t", "u", "v", "w", "x", "y", "z"}

Spaces == {" ", "\n", "\t"}

isdigit(c) == c \in Digits

isalpha(c) == c \in Letters

isspace(c) == c \in Spaces

(***************************************************************************)
(* wabbit/_lexer.py: the match_* functions.  Each returns the matched      *)
(* prefix ("" when nothing matches).  The two comment matchers index the   *)
(* text without a bounds check, so they return a record whose field        *)
(* raised tells that Python raised IndexError.                             *)
(***************************************************************************)
RECURSIVE ScanDigits(_, _)
ScanDigits(s, n) ==
    IF n < Len(s) /\ isdigit(At(s, n)) THEN ScanDigits(s, n + 1) ELSE n

match_digits(s, start) == Slice(s, start, ScanDigits(s, start))

RECURSIVE ScanName(_, _)
ScanName(s, n) ==
    IF n < Len(s) /\ (isalpha(At(s, n)) \/ At(s, n) = "_")
    THEN ScanName(s, n + 1)
    ELSE n

\* match_name with the slice taken from the start of the text
match_name_from_zero(s, start) ==
    LET n == ScanName(s, start)
    IN  IF n = start
        THEN <<>>
        ELSE LET suffix == IF n > 0 THEN match_digits(SliceFrom(s, n), 0)
                           ELSE <<>>
             IN  Slice(s, 0, n) \o suffix

match_name(s, start) ==
    LET n == ScanName(s, start)
    IN  IF n = start
        THEN <<>>
        ELSE LET suffix == IF n > 0 THEN match_digits(SliceFrom(s, n), 0)
                           ELSE <<>>
             IN  Slice(s, start, n) \o suffix

symbols == { <<"+">>, <<"-">>, <<"*">>, <<"/">>, <<"<">>, <<">">>, <<"=">>,
             <<"<", "=">>, <<">", "=">>, <<"=", "=">>, <<"!">>,
             <<"&", "&">>, <<"|", "|">>, <<"(">>, <<")">>, <<"{">>, <<"}">>,
             <<";">> }

match_symbol(s, start) ==
    IF Len(s) >= 2 /\ Slice(s, 0, 2) \in symbols
    THEN Slice(s, start, 2)
    ELSE IF <<At(s, start)>> \in symbols
         THEN <<At(s, start)>>
         ELSE <<>>

RECURSIVE ScanToStar(_, _)
ScanToStar(s, n) ==
    IF n < Len(s) /\ At(s, n) # "*" THEN ScanToStar(s, n + 1) ELSE n

match_block_comment(s, start) ==
    IF Len(s) < start + 4
    THEN [raised |-> FALSE, m |-> <<>>]
    ELSE IF Slice(s, start, start + 2) # <<"/", "*">>
    THEN [raised |-> FALSE, m |-> <<>>]
    ELSE LET n == ScanToStar(s, start + 2) + 1
         IN  IF ~InRange(s, n)
             THEN [raised |-> TRUE, m |-> <<>>]
             ELSE IF At(s, n) = "/"
             THEN [raised |-> FALSE, m |-> Slice(s, start, n + 1)]
             ELSE [raised |-> FALSE, m |-> <<>>]

RECURSIVE ScanToNewline(_, _)
ScanToNewline(s, n) ==
    IF n < Len(s) /\ At(s, n) # "\n" THEN ScanToNewline(s, n + 1) ELSE n

match_line_comment(s, start) ==
    IF Len(s) < start + 2
    THEN [raised |-> FALSE, m |-> <<>>]
    ELSE IF Slice(s, start, start + 2) # <<"/", "/">>
    THEN [raised |-> FALSE, m |-> <<>>]
    ELSE LET n == ScanToNewline(s, start + 2)
         IN  IF ~InRange(s, n)
             THEN [raised |-> TRUE, m |-> <<>>]
             ELSE IF At(s, n) = "\n"
             THEN [raised |-> FALSE, m |-> Slice(s, 0, n + 1)]
             ELSE [raised |-> FALSE, m |-> <<>>]

match_float(s, start) ==
    LET digits == match_digits(s, start)
    IN  IF digits # <<>>
        THEN LET dot_pos == start + Len(digits)
             IN  IF dot_pos >= Len(s) \/ At(s, dot_pos) # "."
                 THEN <<>>
                 ELSE LET more_digits == match_digits(s, dot_pos + 1)
                      IN  IF more_digits # <<>>
                          THEN Slice(s, start, dot_pos + Len(more_digits) + 1)
                          ELSE Slice(s, start, dot_pos + 1)
        ELSE IF At(s, start) = "." /\ match_digits(s, start + 1) # <<>>
             THEN Slice(s, start, Len(match_digits(s, start + 1)) + 1)
             ELSE <<>>

RECURSIVE ScanSpace(_, _)
ScanSpace(s, n) ==
    IF n < Len(s) /\ isspace(At(s, n)) THEN ScanSpace(s, n + 1) ELSE n

match_whitespace(s, start) == Slice(s, start, ScanSpace(s, start))

(***************************************************************************)
(* wabbit/_lexer.py: the token classes and tokenize.                       *)
(***************************************************************************)
Token(cls, value, p) == [cls |-> cls, value |-> value, pos |-> p]

TOKEN_CLS(m) ==
    CASE m = <<"+">> -> "Plus"
      [] m = <<"-">> -> "Minus"
      [] m = <<"*">> -> "Multiply"
      [] m = <<"/">> -> "Divide"
      [] m = <<"<">> -> "Less"
      [] m = <<">">> -> "More"
      [] m = <<"=">> -> "Equal"
      [] m = <<"<", "=">> -> "LessEq"
      [] m = <<">", "=">> -> "MoreEq"
      [] m = <<"=", "=">> -> "DoubleEq"
      [] m = <<"!">> -> "LogicalNot"
      [] m = <<"&", "&">> -> "LogicalAnd"
      [] m = <<"|", "|">> -> "LogicalOr"
      [] m = <<"(">> -> "OpenParens"
      [] m = <<")">> -> "CloseParens"
      [] m = <<"{">> -> "OpenCurlyBrace"
      [] m = <<"}">> -> "CloseCurlyBrace"
      [] m = <<";">> -> "Semicolon"
      [] OTHER -> "KeyError"

NAME_CLS(m) ==
    CASE m = <<"p", "r", "i", "n", "t">> -> "Print"
      [] m = <<"c", "o", "n", "s", "t">> -> "Const"
      [] m = <<"v", "a", "r">> -> "Var"
      [] OTHER -> "Name"

\* Which branch of the scan loop's if/elif chain is taken at offset p, in the
\* order of the code: the first matcher that returns a non-empty string wins,
\* and an IndexError of a comment matcher ends the chain.
tokenize_branch(s, p) ==
    IF match_block_comment(s, p).raised THEN "IndexError"
    ELSE IF match_block_comment(s, p).m # <<>> THEN "block_comment"
    ELSE IF match_line_comment(s, p).raised THEN "IndexError"
    ELSE IF match_line_comment(s, p).m # <<>> THEN "line_comment"
    ELSE IF match_name(s, p) # <<>> THEN "name"
    ELSE IF match_float(s, p) # <<>> THEN "float"
    ELSE IF match_digits(s, p) # <<>> THEN "digits"
    ELSE IF match_symbol(s, p) # <<>>
         THEN (IF TOKEN_CLS(match_symbol(s, p)) = "KeyError"
               THEN "KeyError" ELSE "symbol")
    ELSE IF match_whitespace(s, p) # <<>> THEN "whitespace"
    ELSE "WabbitSyntaxError"

\* an iteration that leaves the cursor where it is
tokenize_step_in_place(st) ==
    IF tokenize_branch(st.text, st.pos)
           \in {"WabbitSyntaxError", "IndexError", "KeyError"}
    THEN [st EXCEPT !.pc = "raised", !.exc = tokenize_branch(st.text, st.pos)]
    ELSE st

\* One iteration of `while pos < len(text)`: the scan state after it.
tokenize_step(st) ==
    LET s == st.text
        p == st.pos
        b == tokenize_branch(s, p)
    IN  CASE b = "block_comment" ->
               [st EXCEPT !.pos = p + Len(match_block_comment(s, p).m)]
          [] b = "line_comment" ->
               [st EXCEPT !.pos = p + Len(match_line_comment(s, p).m)]
          [] b = "name" ->
               [st EXCEPT !.pos = p + Len(match_name(s, p)),
                          !.tokens = Append(@, Token(NAME_CLS(match_name(s, p)),
                                                     match_name(s, p), p))]
          [] b = "float" ->
               [st EXCEPT !.pos = p + Len(match_float(s, p)),
                          !.tokens = Append(@, Token("Float", match_float(s, p), p))]
          [] b = "digits" ->
               [st EXCEPT !.pos = p + Len(match_digits(s, p)),
                          !.tokens = Append(@, Token("Digits", match_digits(s, p), p))]
          [] b = "symbol" ->
               [st EXCEPT !.pos = p + Len(match_symbol(s, p)),
                          !.tokens = Append(@, Token(TOKEN_CLS(match_symbol(s, p)),
                                                     match_symbol(s, p), p))]
          [] b = "whitespace" ->
               [st EXCEPT !.pos = p + Len(match_whitespace(s, p))]
          [] OTHER ->
               [st EXCEPT !.pc = "raised", !.exc = b]

LexState == [text |-> text, pos |-> pos, tokens |-> tokens,
             pc |-> lex_pc, exc |-> lex_exc]

LexStart(s) == [text |-> s, pos |-> 0, tokens |-> <<>>, pc |-> "scan",
                exc |-> "none"]

\* `while pos < len(text)` fails: `return tokens`
tokenize_return(st) == [st EXCEPT !.pc = "returned"]

RECURSIVE tokenize_run(_)
tokenize_run(st) ==
    IF st.pc # "scan" THEN st
    ELSE IF st.pos < Len(st.text) THEN tokenize_run(tokenize_step(st))
    ELSE tokenize_return(st)

\* tokenize(text): the final scan state (pc = "returned" with the tokens, or
\* pc = "raised" with the exception's kind)
tokenize(s) == tokenize_run(LexStart(s))

(***************************************************************************)
(* The lexer as a state machine: one action per branch of the scan loop.   *)
(***************************************************************************)
Pieces == { <<"a">>, <<"1">>, <<".">>, <<"\n">>, <<"*">>, <<"/">>,
            <<"=">>, <<"<">>,
            <<"i", "f">>, <<"v", "a", "r">>,
            <<"/", "/">>, <<"/", "/", "\n">>, <<"/", "*">>, <<"*", "/">> }

RECURSIVE Concat(_)
Concat(ps) == IF ps = <<>> THEN <<>> ELSE Head(ps) \o Concat(Tail(ps))

Texts == { Concat(ps) : ps \in UNION { [1..n -> Pieces] : n \in 0..MaxPieces } }

LexInit ==
    /\ text \in Texts
    /\ pos = 0
    /\ tokens = <<>>
    /\ lex_pc = "scan"
    /\ lex_exc = "none"
    /\ ParserIdle
    /\ RoundTripIdle
    /\ InterpIdle
    /\ EmitIdle
    /\ FormatIdle
    /\ AstIdle

LexApply(st) ==
    /\ pos' = st.pos
    /\ tokens' = st.tokens
    /\ lex_pc' = st.pc
    /\ lex_exc' = st.exc
    /\ UNCHANGED <<text, parserVars, roundTripVars, interpVars, emitVars,
               formatVars, astVars>>

LexScanning == lex_pc = "scan" /\ pos < Len(text)

SkipBlockComment ==
    /\ LexScanning
    /\ tokenize_branch(text, pos) = "block_comment"
    /\ LexApply(tokenize_step(LexState))

SkipLineComment ==
    /\ LexScanning
    /\ tokenize_branch(text, pos) = "line_comment"
    /\ LexApply(tokenize_step(LexState))

EmitName ==
    /\ LexScanning
    /\ tokenize_branch(text, pos) = "name"
    /\ LexApply(tokenize_step(LexState))

EmitFloat ==
    /\ LexScanning
    /\ tokenize_branch(text, pos) = "float"
    /\ LexApply(tokenize_step(LexState))

EmitDigits ==
    /\ LexScanning
    /\ tokenize_branch(text, pos) = "digits"
    /\ LexApply(tokenize_step(LexState))

EmitSymbol ==
    /\ LexScanning
    /\ tokenize_branch(text, pos) = "symbol"
    /\ LexApply(tokenize_step(LexState))

SkipWhitespace ==
    /\ LexScanning
    /\ tokenize_branch(text, pos) = "whitespace"
    /\ LexApply(tokenize_step(LexState))

RaiseSyntaxError ==
    /\ LexScanning
    /\ tokenize_branch(text, pos) = "WabbitSyntaxError"
    /\ LexApply(tokenize_step(LexState))

\* an exception that is not one of the lexer's own: IndexError, KeyError
RaiseHostError ==
    /\ LexScanning
    /\ tokenize_branch(text, pos) \in {"IndexError", "KeyError"}
    /\ LexApply(tokenize_step(LexState))

ReturnTokens ==
    /\ lex_pc = "scan"
    /\ pos >= Len(text)
    /\ LexApply(tokenize_return(LexState))

LexNext ==
    \/ SkipBlockComment
    \/ SkipLineComment
    \/ EmitName
    \/ EmitFloat
    \/ EmitDigits
    \/ EmitSymbol
    \/ SkipWhitespace
    \/ RaiseSyntaxError
    \/ RaiseHostError
    \/ ReturnTokens

SpecLexer == LexInit /\ [][LexNext]_vars

(***************************************************************************)
(* Lexer claims.                                                           *)
(***************************************************************************)
Contains(s, c) == \E i \in 1..Len(s) : s[i] = c

\* the text before offset i holds only names, digits and whitespace
CleanPrefix(s, i) ==
    \A k \in 0..(i - 1) : isalpha(At(s, k)) \/ isdigit(At(s, k)) \/ isspace(At(s, k))

TwoCharSymbols == { <<"<", "=">>, <<">", "=">>, <<"=", "=">>, <<"!", "=">>,
                    <<"&", "&">>, <<"|", "|">> }

TwoCharCls(m) ==
    CASE m = <<"<", "=">> -> "LessEq"
      [] m = <<">", "=">> -> "MoreEq"
      [] m = <<"=", "=">> -> "DoubleEq"
      [] m = <<"!", "=">> -> "NotEq"
      [] m = <<"&", "&">> -> "LogicalAnd"
      [] m = <<"|", "|">> -> "LogicalOr"

\* C5: whenever the scan stands at an offset where one of the two-character
\* symbols <= >= == != && || begins (in a text without comments), the step
\* emits one two-character token for it there and moves past it, whatever the
\* offset and whatever the first two characters of the text are.
C5_TwoCharSymbolWins ==
    [][ ( /\ LexScanning
          /\ ~Contains(text, "/")
          /\ Slice(text, pos, pos + 2) \in TwoCharSymbols )
        => ( /\ lex_pc' = "scan"
             /\ pos' = pos + 2
             /\ tokens' = Append(tokens,
                                 Token(TwoCharCls(Slice(text, pos, pos + 2)),
                                       Slice(text, pos, pos + 2), pos)) ) ]_vars

\* C6: a line comment (// up to its newline) that starts at any offset of a
\* text without block comments produces no token, and scanning resumes at the
\* character right after the terminating newline.
C6_LineCommentConsumed ==
    [][ ( /\ LexScanning
          /\ ~Contains(text, "*")
          /\ CleanPrefix(text, pos)
          /\ Slice(text, pos, pos + 2) = <<"/", "/">>
          /\ ScanToNewline(text, pos + 2) < Len(text) )
        => ( /\ lex_pc' = "scan"
             /\ pos' = ScanToNewline(text, pos + 2) + 1
             /\ tokens' = tokens ) ]_vars

\* a // comment after a clean prefix with no newline after it
UnterminatedLineComment(s) ==
    \E i \in 0..(Len(s) - 2) :
        /\ CleanPrefix(s, i)
        /\ Slice(s, i, i + 2) = <<"/", "/">>
        /\ ScanToNewline(s, i + 2) = Len(s)

HasCloser(s, from) ==
    \E j \in from..(Len(s) - 2) : Slice(s, j, j + 2) = <<"*", "/">>

\* a /* comment after a clean prefix with no */ after it
UnterminatedBlockComment(s) ==
    \E i \in 0..(Len(s) - 2) :
        /\ CleanPrefix(s, i)
        /\ Slice(s, i, i + 2) = <<"/", "*">>
        /\ ~HasCloser(s, i + 2)

\* C7: on a text whose comment lacks its terminator tokenize ends by raising
\* WabbitSyntaxError: it neither returns tokens nor raises another exception.
C7_UnterminatedCommentIsSyntaxError ==
    ( /\ lex_pc # "scan"
      /\ UnterminatedLineComment(text) \/ UnterminatedBlockComment(text) )
    => ( lex_pc = "raised" /\ lex_exc = "WabbitSyntaxError" )

\* the offset of the first */ at or after from
FirstCloser(s, from) ==
    CHOOSE j \in from..(Len(s) - 2) :
        /\ Slice(s, j, j + 2) = <<"*", "/">>
        /\ \A k \in from..(j - 1) : Slice(s, k, k + 2) # <<"*", "/">>

\* C8: a block comment runs from /* to the first following */ and none of its
\* characters is emitted as a token, also when its body holds * characters.
C8_BlockCommentSkippedWhole ==
    \A i \in 0..(Len(text) - 2) :
        ( /\ CleanPrefix(text, i)
          /\ Slice(text, i, i + 2) = <<"/", "*">>
          /\ HasCloser(text, i + 2) )
        => \A k \in 1..Len(tokens) :
               ~( i <= tokens[k].pos /\ tokens[k].pos < FirstCloser(text, i + 2) + 2 )

KeywordCls(m) ==
    CASE m = <<"p", "r", "i", "n", "t">> -> "Print"
      [] m = <<"v", "a", "r">> -> "Var"
      [] m = <<"c", "o", "n", "s", "t">> -> "Const"
      [] m = <<"i", "f">> -> "If"
      [] m = <<"e", "l", "s", "e">> -> "Else"
      [] m = <<"w", "h", "i", "l", "e">> -> "While"
      [] m = <<"b", "r", "e", "a", "k">> -> "Break"
      [] m = <<"c", "o", "n", "t", "i", "n", "u", "e">> -> "Continue"
      [] m = <<"f", "u", "n", "c">> -> "Func"
      [] m = <<"r", "e", "t", "u", "r", "n">> -> "Return"
      [] m = <<"t", "r", "u", "e">> -> "True"
      [] m = <<"f", "a", "l", "s", "e">> -> "False"
      [] OTHER -> "Name"

IsIdentifier(m) == m # <<>> /\ (isalpha(m[1]) \/ m[1] = "_")

\* C9: an identifier lexeme equal to one of the twelve keywords is emitted as
\* a token of that keyword's own kind, every other identifier as Name.
C9_KeywordKinds ==
    \A k \in 1..Len(tokens) :
        IsIdentifier(tokens[k].value)
        => tokens[k].cls = KeywordCls(tokens[k].value)

\* C10: when tokenize returns, each token's lexeme is the substring of the
\* input at the token's recorded offset, and the tokens are in strictly
\* increasing offset order without overlap.
C10_TokensAreOrderedSubstrings ==
    lex_pc = "returned" =>
        /\ \A k \in 1..Len(tokens) :
               /\ Len(tokens[k].value) > 0
               /\ tokens[k].value =
                      Slice(text, tokens[k].pos,
                            tokens[k].pos + Len(tokens[k].value))
               /\ tokens[k].pos + Len(tokens[k].value) <= Len(text)
        /\ \A k \in 1..(Len(tokens) - 1) :
               tokens[k].pos + Len(tokens[k].value) <= tokens[k + 1].pos

\* tokenize returned three tokens, one of them a name at an offset above 0
C10_Witness ==
    /\ lex_pc = "returned"
    /\ Len(tokens) = 3
    /\ \E k \in 1..3 : tokens[k].cls = "Name" /\ tokens[k].pos > 0

(***************************************************************************)
(* wabbit/_ast.py: the AST nodes, as records tagged with kind.  A node     *)
(* without a source position has location NoLocation (Python's None).      *)
(***************************************************************************)
NoLocation == -1

NoneNode == [kind |-> "None"]

Integer(loc, value) == [kind |-> "Integer", location |-> loc, value |-> value]

Float(loc, value) == [kind |-> "Float", location |-> loc, value |-> value]

\* Python's True and False, as the value of a Boolean node
True == <<"True">>

False == <<"False">>

Boolean(loc, value) == [kind |-> "Boolean", location |-> loc, value |-> value]

Character(loc, value) == [kind |-> "Character", location |-> loc, value |-> value]

Name(loc, value) == [kind |-> "Name", location |-> loc, value |-> value]

Type(loc, name) == [kind |-> "Type", location |-> loc, name |-> name]

TypeNames == { <<"i", "n", "t">>, <<"f", "l", "o", "a", "t">>,
               <<"b", "o", "o", "l">>, <<"c", "h", "a", "r">> }

BinOp(loc, operation, left, right) ==
    [kind |-> "BinOp", location |-> loc, operation |-> operation,
     left |-> left, right |-> right]

UnaryOp(loc, operation, operand) ==
    [kind |-> "UnaryOp", location |-> loc, operation |-> operation,
     operand |-> operand]

LogicalOp(loc, operation, left, right) ==
    [kind |-> "LogicalOp", location |-> loc, operation |-> operation,
     left |-> left, right |-> right]

ParenExpr(loc, value) == [kind |-> "ParenExpr", location |-> loc, value |-> value]

Assignment(loc, left, right) ==
    [kind |-> "Assignment", location |-> loc, left |-> left, right |-> right]

FuncCall(loc, name, args) ==
    [kind |-> "FuncCall", location |-> loc, name |-> name, args |-> args]

ExprAsStatement(expr) ==
    [kind |-> "ExprAsStatement", location |-> NoLocation, expr |-> expr]

PrintStatement(loc, value) ==
    [kind |-> "PrintStatement", location |-> loc, value |-> value]

VarDecl(loc, name, value, type_) ==
    [kind |-> "VarDecl", location |-> loc, name |-> name, value |-> value,
     type_ |-> type_]

ConstDecl(loc, name, value, type_) ==
    [kind |-> "ConstDecl", location |-> loc, name |-> name, value |-> value,
     type_ |-> type_]

Statements(nodes) ==
    [kind |-> "Statements", location |-> NoLocation, nodes |-> nodes]

IfElse(loc, test, body, else_body) ==
    [kind |-> "IfElse", location |-> loc, test |-> test, body |-> body,
     else_body |-> else_body]

While(loc, test, body) ==
    [kind |-> "While", location |-> loc, test |-> test, body |-> body]

Break(loc) == [kind |-> "Break", location |-> loc]

Continue(loc) == [kind |-> "Continue", location |-> loc]

Return(loc, value) == [kind |-> "Return", location |-> loc, value |-> value]

FuncArg(loc, name, type_) ==
    [kind |-> "FuncArg", location |-> loc, name |-> name, type_ |-> type_]

FuncDef(loc, name, args, return_type, body) ==
    [kind |-> "FuncDef", location |-> loc, name |-> name, args |-> args,
     return_type |-> return_type, body |-> body]

(***************************************************************************)
(* _parser.py: _TokenStream.  A parser token is a record with type, value  *)
(* and pos; T is the token list and c is _curr_token.  Every parse         *)
(* function returns a record: exc is "none" or the kind of the exception   *)
(* raised, node the result, curr the cursor after it.                      *)
(***************************************************************************)
PToken(type, value, p) == [type |-> type, value |-> value, pos |-> p]

Ok(node, c) == [exc |-> "none", node |-> node, curr |-> c]

Raise(exc, c) == [exc |-> exc, node |-> NoneNode, curr |-> c]

IsOk(r) == r.exc = "none"

eof(T, c) == c >= Len(T)

\* self._tokens[self._curr_token]; the caller checks eof or gets IndexError
current(T, c) == T[c + 1]

peek(T, c, toktype) == ~eof(T, c) /\ current(T, c).type = toktype

peek_one_of(T, c, tok_types) == ~eof(T, c) /\ current(T, c).type \in tok_types

peek_all(T, c, tok_types) ==
    /\ ~eof(T, c)
    /\ ~(c + Len(tok_types) >= Len(T))
    /\ \A i \in 1..Len(tok_types) : T[c + i].type = tok_types[i]

\* the matched token is returned in the field node
expect(T, c, toktype) ==
    IF eof(T, c) THEN Raise("IndexError", c)
    ELSE IF current(T, c).type # toktype THEN Raise("WabbitSyntaxError", c)
    ELSE Ok(current(T, c), c + 1)

expect_one_of(T, c, tok_types) ==
    IF eof(T, c) THEN Raise("IndexError", c)
    ELSE IF current(T, c).type \notin tok_types THEN Raise("WabbitSyntaxError", c)
    ELSE Ok(current(T, c), c + 1)

(***************************************************************************)
(* _parser.py: the recursive-descent functions.  A statement that follows  *)
(* a call runs only if the call did not raise: Then(r, K) is K applied to  *)
(* the result r of the call, or r itself when r is a raised exception.     *)
(***************************************************************************)
Then(r, K(_)) == IF ~IsOk(r) THEN r ELSE K(r)

\* _parse_statement and _parse_expression, the two functions every cycle of
\* calls goes through, are called by name: parse("statement", ...) is
\* _parse_statement(...), parse("expression", ...) is _parse_expression(...)
RECURSIVE parse(_, _, _)
RECURSIVE parse_statement(_, _)
RECURSIVE parse_block_loop(_, _, _)
RECURSIVE parse_expression(_, _)
RECURSIVE parse_factor(_, _)
RECURSIVE parse_unaryop(_, _)
RECURSIVE parse_func_call(_, _)
RECURSIVE parse_call_args_loop(_, _, _)
RECURSIVE parse_muldiv_loop(_, _)
RECURSIVE parse_addsub_loop(_, _)
RECURSIVE parse_logical_cmp_loop(_, _)
RECURSIVE parse_and_loop(_, _)
RECURSIVE parse_or_loop(_, _)
RECURSIVE parse_muldiv_or_expr(_, _)
RECURSIVE parse_addsub_or_expr(_, _)
RECURSIVE parse_logical_cmp_or_expr(_, _)
RECURSIVE parse_and_or_expr(_, _)
RECURSIVE parse_or_or_expr(_, _)
RECURSIVE parse_assignment_or_expr(_, _)
RECURSIVE parse_statements_block(_, _)
RECURSIVE parse_else_statement(_, _)
RECURSIVE parse_if_statement(_, _)
RECURSIVE parse_while_statement(_, _)
RECURSIVE parse_func_def(_, _)

parse_name(T, c) ==
    Then(expect(T, c, "NAME"), LAMBDA t :
         Ok(Name(t.node.pos, t.node.value), t.curr))

parse_integer(T, c) ==
    Then(expect(T, c, "INTEGER"), LAMBDA t :
         Ok(Integer(t.node.pos, t.node.value), t.curr))

parse_float(T, c) ==
    Then(expect(T, c, "FLOAT"), LAMBDA t :
         Ok(Float(t.node.pos, t.node.value), t.curr))

parse_true(T, c) ==
    Then(expect(T, c, "TRUE"), LAMBDA t : Ok(Boolean(t.node.pos, True), t.curr))

parse_false(T, c) ==
    Then(expect(T, c, "FALSE"), LAMBDA t : Ok(Boolean(t.node.pos, False), t.curr))

\* value = t.value[1:-1]; "\\n" becomes the newline character
character_value(v) ==
    IF Slice(v, 1, Len(v) - 1) = <<"\\", "n">> THEN <<"\n">>
    ELSE Slice(v, 1, Len(v) - 1)

parse_character(T, c) ==
    Then(expect(T, c, "CHAR"), LAMBDA t :
         Ok(Character(t.node.pos, character_value(t.node.value)), t.curr))

\* Type(name=t.value): the model validates name against its four literals
parse_type(T, c) ==
    Then(expect(T, c, "NAME"), LAMBDA t :
         IF t.node.value \notin TypeNames THEN Raise("ValidationError", t.curr)
         ELSE Ok(Type(t.node.pos, t.node.value), t.curr))

parse_factor(T, c) ==
    IF peek(T, c, "INTEGER") THEN parse_integer(T, c)
    ELSE IF peek(T, c, "FLOAT") THEN parse_float(T, c)
    ELSE IF peek(T, c, "TRUE") THEN parse_true(T, c)
    ELSE IF peek(T, c, "FALSE") THEN parse_false(T, c)
    ELSE IF peek(T, c, "CHAR") THEN parse_character(T, c)
    ELSE IF peek_all(T, c, <<"NAME", "OPEN_PARENS">>) THEN parse_func_call(T, c)
    ELSE IF peek(T, c, "NAME") THEN parse_name(T, c)
    ELSE IF peek_one_of(T, c, {"SUB", "ADD", "LOGICAL_NOT"}) THEN parse_unaryop(T, c)
    ELSE IF peek(T, c, "OPEN_PARENS")
    THEN Then(expect(T, c, "OPEN_PARENS"), LAMBDA o :
         Then(parse("expression", T, o.curr), LAMBDA factor :
         Then(expect(T, factor.curr, "CLOSE_PARENS"), LAMBDA cl :
              Ok(factor.node, cl.curr))))
    ELSE IF eof(T, c) THEN Raise("IndexError", c)
    ELSE Raise("WabbitSyntaxError", c)

unary_operation(toktype) ==
    CASE toktype = "SUB" -> <<"-">>
      [] toktype = "ADD" -> <<"+">>
      [] toktype = "LOGICAL_NOT" -> <<"!">>

parse_unaryop(T, c) ==
    Then(expect_one_of(T, c, {"SUB", "ADD", "LOGICAL_NOT"}), LAMBDA t1 :
    Then(parse_factor(T, t1.curr), LAMBDA val :
         Ok(UnaryOp(t1.node.pos, unary_operation(t1.node.type), val.node),
            val.curr)))

\* while not tokens.peek("CLOSE_PARENS"): args.append(...); optional COMMA
parse_call_args_loop(T, c, args) ==
    IF peek(T, c, "CLOSE_PARENS") THEN Ok(args, c)
    ELSE Then(parse("expression", T, c), LAMBDA a :
              parse_call_args_loop(
                  T,
                  IF peek(T, a.curr, "COMMA") THEN a.curr + 1 ELSE a.curr,
                  Append(args, a.node)))

parse_func_call(T, c) ==
    Then(parse_name(T, c), LAMBDA func_name :
    Then(expect(T, func_name.curr, "OPEN_PARENS"), LAMBDA o :
    Then(parse_call_args_loop(T, o.curr, <<>>), LAMBDA args :
    Then(expect(T, args.curr, "CLOSE_PARENS"), LAMBDA cl :
         Ok(FuncCall(func_name.node.location, func_name.node, args.node),
            cl.curr)))))

\* the `while tok_op := tokens.peek_one_of("MULTIPLY", "DIVIDE")` loop;
\* left is the result so far
parse_muldiv_loop(T, left) ==
    IF peek_one_of(T, left.curr, {"MULTIPLY", "DIVIDE"})
    THEN Then(parse_factor(T, left.curr + 1), LAMBDA right :
              parse_muldiv_loop(
                  T, Ok(BinOp(left.node.location, current(T, left.curr).value,
                              left.node, right.node), right.curr)))
    ELSE left

parse_muldiv_or_expr(T, c) ==
    Then(parse_factor(T, c), LAMBDA left : parse_muldiv_loop(T, left))

\* the addsub loop with the right operand parsed as a whole addsub expression
parse_addsub_loop_right_assoc(T, left) ==
    IF peek_one_of(T, left.curr, {"ADD", "SUB"})
    THEN Then(parse_muldiv_or_expr(T, left.curr + 1), LAMBDA r0 :
         Then(parse_addsub_loop(T, r0), LAMBDA right :
              Ok(BinOp(left.node.location, current(T, left.curr).value,
                       left.node, right.node), right.curr)))
    ELSE left

parse_addsub_loop(T, left) ==
    IF peek_one_of(T, left.curr, {"ADD", "SUB"})
    THEN Then(parse_muldiv_or_expr(T, left.curr + 1), LAMBDA right :
              parse_addsub_loop(
                  T, Ok(BinOp(left.node.location, current(T, left.curr).value,
                              left.node, right.node), right.curr)))
    ELSE left

parse_addsub_or_expr(T, c) ==
    Then(parse_muldiv_or_expr(T, c), LAMBDA left : parse_addsub_loop(T, left))

cmp_tokens == {"LESS", "MORE", "LESS_EQ", "MORE_EQ", "DOUBLE_EQ", "NOT_EQ"}

parse_logical_cmp_loop(T, left) ==
    IF peek_one_of(T, left.curr, cmp_tokens)
    THEN Then(parse_addsub_or_expr(T, left.curr + 1), LAMBDA right :
              parse_logical_cmp_loop(
                  T, Ok(LogicalOp(left.node.location, current(T, left.curr).value,
                                  left.node, right.node), right.curr)))
    ELSE left

parse_logical_cmp_or_expr(T, c) ==
    Then(parse_addsub_or_expr(T, c), LAMBDA left : parse_logical_cmp_loop(T, left))

parse_and_loop(T, left) ==
    IF peek_one_of(T, left.curr, {"LOGICAL_AND"})
    THEN Then(parse_logical_cmp_or_expr(T, left.curr + 1), LAMBDA right :
              parse_and_loop(
                  T, Ok(LogicalOp(left.node.location, current(T, left.curr).value,
                                  left.node, right.node), right.curr)))
    ELSE left

parse_and_or_expr(T, c) ==
    Then(parse_logical_cmp_or_expr(T, c), LAMBDA left : parse_and_loop(T, left))

parse_or_loop(T, left) ==
    IF peek_one_of(T, left.curr, {"LOGICAL_OR"})
    THEN Then(parse_and_or_expr(T, left.curr + 1), LAMBDA right :
              parse_or_loop(
                  T, Ok(LogicalOp(left.node.location, current(T, left.curr).value,
                                  left.node, right.node), right.curr)))
    ELSE left

parse_or_or_expr(T, c) ==
    Then(parse_and_or_expr(T, c), LAMBDA left : parse_or_loop(T, left))

\* Assignment(left=...): the field left is declared a Name
parse_assignment_or_expr(T, c) ==
    Then(parse_or_or_expr(T, c), LAMBDA left :
         IF peek(T, left.curr, "EQUAL")
         THEN Then(parse_or_or_expr(T, left.curr + 1), LAMBDA right :
                   IF left.node.kind # "Name"
                   THEN Raise("ValidationError", right.curr)
                   ELSE Ok(Assignment(left.node.location, left.node, right.node),
                           right.curr))
         ELSE left)

parse_expression(T, c) == parse_assignment_or_expr(T, c)

parse_break_statement(T, c) ==
    Then(expect(T, c, "BREAK"), LAMBDA t :
    Then(expect(T, t.curr, "SEMICOLON"), LAMBDA s :
         Ok(Break(t.node.pos), s.curr)))

parse_continue_statement(T, c) ==
    Then(expect(T, c, "CONTINUE"), LAMBDA t :
    Then(expect(T, t.curr, "SEMICOLON"), LAMBDA s :
         Ok(Continue(t.node.pos), s.curr)))

parse_print_statement(T, c) ==
    Then(expect(T, c, "PRINT"), LAMBDA t :
    Then(parse("expression", T, t.curr), LAMBDA expr :
    Then(expect(T, expr.curr, "SEMICOLON"), LAMBDA s :
         Ok(PrintStatement(t.node.pos, expr.node), s.curr))))

\* `_parse_type(tokens) if tokens.peek("NAME") else None`
parse_optional_type(T, c) ==
    IF peek(T, c, "NAME") THEN parse_type(T, c) ELSE Ok(NoneNode, c)

parse_const_statement(T, c) ==
    Then(expect(T, c, "CONST"), LAMBDA t1 :
    Then(parse_name(T, t1.curr), LAMBDA name_node :
    Then(parse_optional_type(T, name_node.curr), LAMBDA type_node :
    Then(expect(T, type_node.curr, "EQUAL"), LAMBDA e :
    Then(parse("expression", T, e.curr), LAMBDA val :
    Then(expect(T, val.curr, "SEMICOLON"), LAMBDA s :
         Ok(ConstDecl(t1.node.pos, name_node.node, val.node, type_node.node),
            s.curr)))))))

\* `if tokens.peek("EQUAL"): ... val = _parse_expression(tokens) else: val = None`
parse_optional_value(T, c) ==
    IF peek(T, c, "EQUAL") THEN parse("expression", T, c + 1) ELSE Ok(NoneNode, c)

parse_var_statement(T, c) ==
    Then(expect(T, c, "VAR"), LAMBDA t1 :
    Then(parse_name(T, t1.curr), LAMBDA name_node :
    Then(parse_optional_type(T, name_node.curr), LAMBDA type_node :
    Then(parse_optional_value(T, type_node.curr), LAMBDA val :
    Then(expect(T, val.curr, "SEMICOLON"), LAMBDA s :
         Ok(VarDecl(t1.node.pos, name_node.node, val.node, type_node.node),
            s.curr))))))

\* `while not tokens.peek("CLOSE_CURLY_BRACE"): body.nodes.append(...)`
parse_block_loop(T, c, nodes) ==
    IF peek(T, c, "CLOSE_CURLY_BRACE") THEN Ok(nodes, c)
    ELSE Then(parse("statement", T, c), LAMBDA stmt :
              parse_block_loop(T, stmt.curr, Append(nodes, stmt.node)))

parse_statements_block(T, c) ==
    Then(expect(T, c, "OPEN_CURLY_BRACE"), LAMBDA o :
    Then(parse_block_loop(T, o.curr, <<>>), LAMBDA body :
    Then(expect(T, body.curr, "CLOSE_CURLY_BRACE"), LAMBDA cl :
         Ok(Statements(body.node), cl.curr))))

parse_else_statement(T, c) ==
    Then(expect(T, c, "ELSE"), LAMBDA e : parse_statements_block(T, e.curr))

\* `_parse_else_statement(tokens) if tokens.peek("ELSE") else None`
parse_optional_else(T, c) ==
    IF peek(T, c, "ELSE") THEN parse_else_statement(T, c) ELSE Ok(NoneNode, c)

parse_if_statement(T, c) ==
    Then(expect(T, c, "IF"), LAMBDA t1 :
    Then(parse("expression", T, t1.curr), LAMBDA test :
    Then(parse_statements_block(T, test.curr), LAMBDA body :
    Then(parse_optional_else(T, body.curr), LAMBDA else_body :
         Ok(IfElse(t1.node.pos, test.node, body.node, else_body.node),
            else_body.curr)))))

parse_while_statement(T, c) ==
    Then(expect(T, c, "WHILE"), LAMBDA t1 :
    Then(parse("expression", T, t1.curr), LAMBDA test :
    Then(parse_statements_block(T, test.curr), LAMBDA body :
         Ok(While(t1.node.pos, test.node, body.node), body.curr))))

parse_return_statement(T, c) ==
    Then(expect(T, c, "RETURN"), LAMBDA t1 :
    Then(parse("expression", T, t1.curr), LAMBDA ret_val :
    Then(expect(T, ret_val.curr, "SEMICOLON"), LAMBDA s :
         Ok(Return(t1.node.pos, ret_val.node), s.curr))))

parse_func_arg(T, c) ==
    Then(parse_name(T, c), LAMBDA name :
    Then(parse_type(T, name.curr), LAMBDA type_ :
         Ok(FuncArg(name.node.location, name.node, type_.node), type_.curr)))

\* `while not tokens.peek("CLOSE_PARENS"): func_args.append(...)`; optional COMMA
RECURSIVE parse_func_args_loop(_, _, _)
parse_func_args_loop(T, c, func_args) ==
    IF peek(T, c, "CLOSE_PARENS") THEN Ok(func_args, c)
    ELSE Then(parse_func_arg(T, c), LAMBDA a :
              parse_func_args_loop(
                  T,
                  IF peek(T, a.curr, "COMMA") THEN a.curr + 1 ELSE a.curr,
                  Append(func_args, a.node)))

parse_func_def(T, c) ==
    Then(expect(T, c, "FUNC"), LAMBDA t1 :
    Then(parse_name(T, t1.curr), LAMBDA func_name :
    Then(expect(T, func_name.curr, "OPEN_PARENS"), LAMBDA o :
    Then(parse_func_args_loop(T, o.curr, <<>>), LAMBDA func_args :
    Then(expect(T, func_args.curr, "CLOSE_PARENS"), LAMBDA cl :
    Then(parse_type(T, cl.curr), LAMBDA ret_type :
    Then(parse_statements_block(T, ret_type.curr), LAMBDA body :
         Ok(FuncDef(t1.node.pos, func_name.node, func_args.node,
                    ret_type.node, body.node),
            body.curr))))))))

parse_expression_as_statement(T, c) ==
    Then(parse("expression", T, c), LAMBDA expr :
    Then(expect(T, expr.curr, "SEMICOLON"), LAMBDA s :
         Ok(ExprAsStatement(expr.node), s.curr)))

parse_statement(T, c) ==
    IF peek(T, c, "BREAK") THEN parse_break_statement(T, c)
    ELSE IF peek(T, c, "CONTINUE") THEN parse_continue_statement(T, c)
    ELSE IF peek(T, c, "PRINT") THEN parse_print_statement(T, c)
    ELSE IF peek(T, c, "CONST") THEN parse_const_statement(T, c)
    ELSE IF peek(T, c, "VAR") THEN parse_var_statement(T, c)
    ELSE IF peek(T, c, "IF") THEN parse_if_statement(T, c)
    ELSE IF peek(T, c, "WHILE") THEN parse_while_statement(T, c)
    ELSE IF peek(T, c, "FUNC") THEN parse_func_def(T, c)
    ELSE IF peek(T, c, "RETURN") THEN parse_return_statement(T, c)
    ELSE parse_expression_as_statement(T, c)

parse(rule, T, c) ==
    CASE rule = "statement" -> parse_statement(T, c)
      [] rule = "expression" -> parse_expression(T, c)

\* `while not tokens.eof(): ast.nodes.append(_parse_statement(tokens))`
RECURSIVE parse_program_loop(_, _, _)
parse_program_loop(T, c, nodes) ==
    IF eof(T, c) THEN Ok(Statements(nodes), c)
    ELSE Then(parse("statement", T, c), LAMBDA stmt :
              parse_program_loop(T, stmt.curr, Append(nodes, stmt.node)))

parse_program(T) == parse_program_loop(T, 0, <<>>)

(***************************************************************************)
(* The parser as a state machine: a token list is handed to                *)
(* _parse_program, which returns the root Statements or raises.            *)
(***************************************************************************)
\* the binary operator tokens, lowest precedence first
BinaryOpTokens ==
    { PToken("LOGICAL_OR", <<"|", "|">>, 0), PToken("LOGICAL_AND", <<"&", "&">>, 0),
      PToken("LESS", <<"<">>, 0), PToken("MORE", <<">">>, 0),
      PToken("LESS_EQ", <<"<", "=">>, 0), PToken("MORE_EQ", <<">", "=">>, 0),
      PToken("DOUBLE_EQ", <<"=", "=">>, 0), PToken("NOT_EQ", <<"!", "=">>, 0),
      PToken("ADD", <<"+">>, 0), PToken("SUB", <<"-">>, 0),
      PToken("MULTIPLY", <<"*">>, 0), PToken("DIVIDE", <<"/">>, 0) }

\* the operand at place i of a chain: the names a, b, c, d
OperandNames == <<"a", "b", "c", "d">>

Operand(i) == PToken("NAME", <<OperandNames[i]>>, 0)

\* operand (op operand)^n
RECURSIVE OperatorChains(_)
OperatorChains(n) ==
    IF n = 0
    THEN { <<Operand(1)>> }
    ELSE { ts \o <<op, Operand(n + 1)>> : ts \in OperatorChains(n - 1),
                                           op \in BinaryOpTokens }

\* the tokens numbered by their place, as offsets
WithOffsets(ts) == [i \in 1..Len(ts) |-> [ts[i] EXCEPT !.pos = i - 1]]

SemicolonToken == PToken("SEMICOLON", <<";">>, 0)

\* the expression statements `a op b ... ;`
ChainStatements ==
    UNION { { ts \o <<SemicolonToken>> : ts \in OperatorChains(n) } : n \in 0..MaxOps }

\* var x [int] [= a] ;
VarStatements ==
    { <<PToken("VAR", <<"v", "a", "r">>, 0), PToken("NAME", <<"x">>, 0)>>
          \o type \o value \o <<SemicolonToken>> :
      type \in { <<>>, <<PToken("NAME", <<"i", "n", "t">>, 0)>> },
      value \in { <<>>, <<PToken("EQUAL", <<"=">>, 0), Operand(1)>> } }

\* while a { b ; }
BlockStatements ==
    { <<PToken("WHILE", <<"w", "h", "i", "l", "e">>, 0), Operand(1),
        PToken("OPEN_CURLY_BRACE", <<"{">>, 0), Operand(2), SemicolonToken,
        PToken("CLOSE_CURLY_BRACE", <<"}">>, 0)>> }

\* the token lists of the machine that are programs of the grammar
GrammarPrograms == ChainStatements \cup VarStatements \cup BlockStatements

\* a token list without its last token (the closing `;` or `}`), and one
\* without the operand before the closing `;`
WithoutLast(ts) == SubSeq(ts, 1, Len(ts) - 1)

WithoutOperand(ts) == SubSeq(ts, 1, Len(ts) - 2) \o <<SemicolonToken>>

Truncated ==
    { WithoutLast(ts) : ts \in GrammarPrograms }
        \cup { WithoutOperand(ts) : ts \in { t \in ChainStatements \cup VarStatements :
                                                Len(t) >= 4 /\ t[Len(t) - 2].type # "NAME" } }

ParserInputs == { WithOffsets(ts) : ts \in GrammarPrograms \cup Truncated }

ParserInit ==
    /\ p_tokens \in ParserInputs
    /\ p_pc = "input"
    /\ p_result = <<>>
    /\ LexIdle
    /\ RoundTripIdle
    /\ InterpIdle
    /\ EmitIdle
    /\ FormatIdle
    /\ AstIdle

\* _parse_program returns the root block
ParseReturns ==
    /\ p_pc = "input"
    /\ LET res == parse_program(p_tokens)
       IN  /\ IsOk(res)
           /\ p_result' = res.node
    /\ p_pc' = "returned"
    /\ UNCHANGED <<p_tokens, lexVars, roundTripVars, interpVars, emitVars,
               formatVars, astVars>>

\* _parse_program raises
ParseRaises ==
    /\ p_pc = "input"
    /\ LET res == parse_program(p_tokens)
       IN  /\ ~IsOk(res)
           /\ p_result' = res.exc
    /\ p_pc' = "raised"
    /\ UNCHANGED <<p_tokens, lexVars, roundTripVars, interpVars, emitVars,
               formatVars, astVars>>

ParserNext == ParseReturns \/ ParseRaises

SpecParser == ParserInit /\ [][ParserNext]_vars

(***************************************************************************)
(* Grouping of operator chains.                                            *)
(***************************************************************************)
\* the five levels, loosest first: || < && < comparison < + - < * /
Prec(toktype) ==
    CASE toktype = "LOGICAL_OR" -> 1
      [] toktype = "LOGICAL_AND" -> 2
      [] toktype \in cmp_tokens -> 3
      [] toktype \in {"ADD", "SUB"} -> 4
      [] toktype \in {"MULTIPLY", "DIVIDE"} -> 5

\* the places lo < i < hi of ts that hold an operator (the even places of a
\* chain), and among them the rightmost one of the loosest level
OperatorPlaces(lo, hi) == { i \in lo..hi : i % 2 = 0 }

RootPlace(ts, lo, hi) ==
    CHOOSE i \in OperatorPlaces(lo, hi) :
        \A j \in OperatorPlaces(lo, hi) :
            \/ Prec(ts[i].type) < Prec(ts[j].type)
            \/ Prec(ts[i].type) = Prec(ts[j].type) /\ j <= i

\* the tree the levels and left associativity prescribe for ts[lo..hi]:
\* the rightmost loosest operator is the root
RECURSIVE Grouped(_, _, _)
Grouped(ts, lo, hi) ==
    IF lo = hi THEN Name(ts[lo].pos, ts[lo].value)
    ELSE LET i == RootPlace(ts, lo, hi)
         IN  IF ts[i].type \in {"ADD", "SUB", "MULTIPLY", "DIVIDE"}
             THEN BinOp(ts[lo].pos, ts[i].value,
                        Grouped(ts, lo, i - 1), Grouped(ts, i + 1, hi))
             ELSE LogicalOp(ts[lo].pos, ts[i].value,
                            Grouped(ts, lo, i - 1), Grouped(ts, i + 1, hi))

IsStatement(ts) == ts \in { WithOffsets(c) : c \in ChainStatements }

IsProgram(ts) == ts \in { WithOffsets(g) : g \in GrammarPrograms }

\* C11: a token list that is not a program of the grammar (its closing `;`
\* or `}` is missing, or an operand is missing) makes the parser raise
\* WabbitSyntaxError, and no other exception
C11_NotAProgramIsSyntaxError ==
    ~IsProgram(p_tokens) /\ p_pc # "input" =>
        /\ p_pc = "raised"
        /\ p_result = "WabbitSyntaxError"

\* the VarDecl nodes of a root block
VarDecls(root) == { root.nodes[i] : i \in { j \in 1..Len(root.nodes) :
                                               root.nodes[j].kind = "VarDecl" } }

\* C12: every VarDecl of a returned AST carries a type or a value, so that
\* `var x;` is not parsed into an AST
C12_VarDeclHasTypeOrValue ==
    p_pc = "returned" =>
        \A d \in VarDecls(p_result) : d.type_ # NoneNode \/ d.value # NoneNode

(***************************************************************************)
(* _format.py: the formatter.  _FormatVisitor keeps _indent_level, which   *)
(* visit_IfElse, visit_While and visit_FuncDef raise by one around the     *)
(* visit of a body: every visit takes the level as lvl.                    *)
(***************************************************************************)
INDENT_SPACES == 4

RECURSIVE Blanks(_)
Blanks(n) == IF n <= 0 THEN <<>> ELSE <<" ">> \o Blanks(n - 1)

indent(txt, indent_level) == Blanks(indent_level * INDENT_SPACES) \o txt

\* sep.join(parts)
RECURSIVE join(_, _)
join(sep, parts) ==
    IF Len(parts) = 0 THEN <<>>
    ELSE IF Len(parts) = 1 THEN parts[1]
    ELSE parts[1] \o sep \o join(sep, Tail(parts))

RECURSIVE FormatVisitor_visit(_, _)

FormatVisitor_visit_Integer(node) == node.value

FormatVisitor_visit_Float(node) == node.value

FormatVisitor_visit_Boolean(node) ==
    IF node.value = True THEN <<"t", "r", "u", "e">> ELSE <<"f", "a", "l", "s", "e">>

FormatVisitor_visit_Character(node) == <<"'">> \o node.value \o <<"'">>

FormatVisitor_visit_Name(node) == node.value

FormatVisitor_visit_PrintStatement(node, lvl) ==
    <<"p", "r", "i", "n", "t", " ">> \o FormatVisitor_visit(node.value, lvl)
        \o <<";">>

FormatVisitor_visit_Break(node) == <<"b", "r", "e", "a", "k", ";">>

FormatVisitor_visit_Continue(node) == <<"c", "o", "n", "t", "i", "n", "u", "e", ";">>

FormatVisitor_visit_BinOp(node, lvl) ==
    FormatVisitor_visit(node.left, lvl) \o <<" ">> \o node.operation \o <<" ">>
        \o FormatVisitor_visit(node.right, lvl)

FormatVisitor_visit_UnaryOp(node, lvl) ==
    node.operation \o FormatVisitor_visit(node.operand, lvl)

FormatVisitor_visit_LogicalOp(node, lvl) ==
    FormatVisitor_visit(node.left, lvl) \o <<" ">> \o node.operation \o <<" ">>
        \o FormatVisitor_visit(node.right, lvl)

FormatVisitor_visit_ParenExpr(node, lvl) ==
    <<"(">> \o FormatVisitor_visit(node.value, lvl) \o <<")">>

FormatVisitor_visit_Assignment(node, lvl) ==
    FormatVisitor_visit(node.left, lvl) \o <<" ", "=", " ">>
        \o FormatVisitor_visit(node.right, lvl)

type_suffix(node) ==
    IF node.type_ # NoneNode THEN <<" ">> \o node.type_.name ELSE <<>>

FormatVisitor_visit_VarDecl(node, lvl) ==
    <<"v", "a", "r", " ">> \o node.name.value \o type_suffix(node)
        \o (IF node.value # NoneNode
            THEN <<" ", "=", " ">> \o FormatVisitor_visit(node.value, lvl)
            ELSE <<>>)
        \o <<";">>

FormatVisitor_visit_ConstDecl(node, lvl) ==
    <<"c", "o", "n", "s", "t", " ">> \o node.name.value \o type_suffix(node)
        \o <<" ", "=", " ">> \o FormatVisitor_visit(node.value, lvl) \o <<";">>

FormatVisitor_visit_Statements(node, lvl) ==
    join(<<"\n">>,
         [i \in 1..Len(node.nodes) |->
              indent(FormatVisitor_visit(node.nodes[i], lvl), lvl)])

FormatVisitor_visit_ExprAsStatement(node, lvl) ==
    FormatVisitor_visit(node.expr, lvl) \o <<";">>

FormatVisitor_visit_IfElse(node, lvl) ==
    join(<<"\n">>,
         << <<"i", "f", " ">> \o FormatVisitor_visit(node.test, lvl) \o <<" ", "{">>,
            FormatVisitor_visit(node.body, lvl + 1) >>
         \o (IF node.else_body # NoneNode
             THEN << indent(<<"}", " ", "e", "l", "s", "e", " ", "{">>, lvl),
                     FormatVisitor_visit(node.else_body, lvl + 1) >>
             ELSE <<>>)
         \o << indent(<<"}">>, lvl) >>)

FormatVisitor_visit_While(node, lvl) ==
    join(<<"\n">>,
         << <<"w", "h", "i", "l", "e", " ">> \o FormatVisitor_visit(node.test, lvl)
                \o <<" ", "{">>,
            FormatVisitor_visit(node.body, lvl + 1),
            <<"}">> >>)

FormatVisitor_visit_FuncArg(node) == node.name.value \o <<" ">> \o node.type_.name

FormatVisitor_visit_FuncDef(node, lvl) ==
    join(<<"\n">>,
         << <<"f", "u", "n", "c", " ">> \o node.name.value \o <<"(">>
                \o join(<<",", " ">>,
                        [i \in 1..Len(node.args) |->
                             FormatVisitor_visit(node.args[i], lvl)])
                \o <<")", " ">> \o node.return_type.name \o <<" ", "{">>,
            FormatVisitor_visit(node.body, lvl + 1),
            <<"}">> >>)

FormatVisitor_visit_Return(node, lvl) ==
    <<"r", "e", "t", "u", "r", "n", " ">> \o FormatVisitor_visit(node.value, lvl)
        \o <<";">>

FormatVisitor_visit_FuncCall(node, lvl) ==
    node.name.value \o <<"(">>
        \o join(<<",", " ">>,
                [i \in 1..Len(node.args) |-> FormatVisitor_visit(node.args[i], lvl)])
        \o <<")">>

\* Visitor.visit: the method visit_<class name>
FormatVisitor_visit(node, lvl) ==
    CASE node.kind = "Integer" -> FormatVisitor_visit_Integer(node)
      [] node.kind = "Float" -> FormatVisitor_visit_Float(node)
      [] node.kind = "Boolean" -> FormatVisitor_visit_Boolean(node)
      [] node.kind = "Character" -> FormatVisitor_visit_Character(node)
      [] node.kind = "Name" -> FormatVisitor_visit_Name(node)
      [] node.kind = "PrintStatement" -> FormatVisitor_visit_PrintStatement(node, lvl)
      [] node.kind = "Break" -> FormatVisitor_visit_Break(node)
      [] node.kind = "Continue" -> FormatVisitor_visit_Continue(node)
      [] node.kind = "BinOp" -> FormatVisitor_visit_BinOp(node, lvl)
      [] node.kind = "UnaryOp" -> FormatVisitor_visit_UnaryOp(node, lvl)
      [] node.kind = "LogicalOp" -> FormatVisitor_visit_LogicalOp(node, lvl)
      [] node.kind = "ParenExpr" -> FormatVisitor_visit_ParenExpr(node, lvl)
      [] node.kind = "Assignment" -> FormatVisitor_visit_Assignment(node, lvl)
      [] node.kind = "VarDecl" -> FormatVisitor_visit_VarDecl(node, lvl)
      [] node.kind = "ConstDecl" -> FormatVisitor_visit_ConstDecl(node, lvl)
      [] node.kind = "Statements" -> FormatVisitor_visit_Statements(node, lvl)
      [] node.kind = "ExprAsStatement" -> FormatVisitor_visit_ExprAsStatement(node, lvl)
      [] node.kind = "IfElse" -> FormatVisitor_visit_IfElse(node, lvl)
      [] node.kind = "While" -> FormatVisitor_visit_While(node, lvl)
      [] node.kind = "FuncDef" -> FormatVisitor_visit_FuncDef(node, lvl)
      [] node.kind = "FuncArg" -> FormatVisitor_visit_FuncArg(node)
      [] node.kind = "Return" -> FormatVisitor_visit_Return(node, lvl)
      [] node.kind = "FuncCall" -> FormatVisitor_visit_FuncCall(node, lvl)

\* format(node): a new _FormatVisitor, whose _indent_level is 0
format(node) == FormatVisitor_visit(node, 0)

(***************************************************************************)
(* The lexer behind parse_source.  _parser.py imports tokenize from a      *)
(* module of its own package that produces tokens with a type; that module *)
(* is modelled from the lexer rules of the specification (4.B): at the     *)
(* cursor p the first rule that matches consumes input.                    *)
(***************************************************************************)
Keywords ==
    { <<"p", "r", "i", "n", "t">>, <<"v", "a", "r">>, <<"c", "o", "n", "s", "t">>,
      <<"i", "f">>, <<"e", "l", "s", "e">>, <<"w", "h", "i", "l", "e">>,
      <<"b", "r", "e", "a", "k">>, <<"c", "o", "n", "t", "i", "n", "u", "e">>,
      <<"f", "u", "n", "c">>, <<"r", "e", "t", "u", "r", "n">>,
      <<"t", "r", "u", "e">>, <<"f", "a", "l", "s", "e">> }

KeywordType(m) ==
    CASE m = <<"p", "r", "i", "n", "t">> -> "PRINT"
      [] m = <<"v", "a", "r">> -> "VAR"
      [] m = <<"c", "o", "n", "s", "t">> -> "CONST"
      [] m = <<"i", "f">> -> "IF"
      [] m = <<"e", "l", "s", "e">> -> "ELSE"
      [] m = <<"w", "h", "i", "l", "e">> -> "WHILE"
      [] m = <<"b", "r", "e", "a", "k">> -> "BREAK"
      [] m = <<"c", "o", "n", "t", "i", "n", "u", "e">> -> "CONTINUE"
      [] m = <<"f", "u", "n", "c">> -> "FUNC"
      [] m = <<"r", "e", "t", "u", "r", "n">> -> "RETURN"
      [] m = <<"t", "r", "u", "e">> -> "TRUE"
      [] m = <<"f", "a", "l", "s", "e">> -> "FALSE"

SymbolType(m) ==
    CASE m = <<"<", "=">> -> "LESS_EQ"
      [] m = <<">", "=">> -> "MORE_EQ"
      [] m = <<"=", "=">> -> "DOUBLE_EQ"
      [] m = <<"!", "=">> -> "NOT_EQ"
      [] m = <<"&", "&">> -> "LOGICAL_AND"
      [] m = <<"|", "|">> -> "LOGICAL_OR"
      [] m = <<"+">> -> "ADD"
      [] m = <<"-">> -> "SUB"
      [] m = <<"*">> -> "MULTIPLY"
      [] m = <<"/">> -> "DIVIDE"
      [] m = <<"<">> -> "LESS"
      [] m = <<">">> -> "MORE"
      [] m = <<"=">> -> "EQUAL"
      [] m = <<"!">> -> "LOGICAL_NOT"
      [] m = <<"(">> -> "OPEN_PARENS"
      [] m = <<")">> -> "CLOSE_PARENS"
      [] m = <<"{">> -> "OPEN_CURLY_BRACE"
      [] m = <<"}">> -> "CLOSE_CURLY_BRACE"
      [] m = <<";">> -> "SEMICOLON"
      [] m = <<",">> -> "COMMA"
      [] OTHER -> "none"

\* the offset of the first occurrence of sub in s at or after from, or -1
RECURSIVE Find(_, _, _)
Find(s, sub, from) ==
    IF from + Len(sub) > Len(s) THEN -1
    ELSE IF Slice(s, from, from + Len(sub)) = sub THEN from
    ELSE Find(s, sub, from + 1)

NameStart == Letters \cup {"_"}

RECURSIVE ScanWhile(_, _, _)
ScanWhile(s, n, chars) ==
    IF InRange(s, n) /\ At(s, n) \in chars THEN ScanWhile(s, n + 1, chars) ELSE n

\* the lexeme and type of the token at offset p; type "skip" for
\* whitespace and comments, "SyntaxError" when no rule matches
LexemeAt(s, p) ==
    LET two == Slice(s, p, p + 2)
        one == Slice(s, p, p + 1)
        nameEnd == ScanWhile(s, ScanWhile(s, p, NameStart), Digits)
        intEnd == ScanWhile(s, p, Digits)
        fracEnd == ScanWhile(s, intEnd + 1, Digits)
    IN  IF two = <<"/", "*">>
        THEN IF Find(s, <<"*", "/">>, p + 2) = -1
             THEN [type |-> "SyntaxError", end |-> p]
             ELSE [type |-> "skip", end |-> Find(s, <<"*", "/">>, p + 2) + 2]
        ELSE IF two = <<"/", "/">>
        THEN IF Find(s, <<"\n">>, p + 2) = -1
             THEN [type |-> "SyntaxError", end |-> p]
             ELSE [type |-> "skip", end |-> Find(s, <<"\n">>, p + 2) + 1]
        ELSE IF At(s, p) \in NameStart
        THEN [type |-> IF Slice(s, p, nameEnd) \in Keywords
                       THEN KeywordType(Slice(s, p, nameEnd)) ELSE "NAME",
              end |-> nameEnd]
        ELSE IF (intEnd > p /\ Slice(s, intEnd, intEnd + 1) = <<".">>)
                \/ (one = <<".">> /\ fracEnd > p + 1)
        THEN [type |-> "FLOAT", end |-> fracEnd]
        ELSE IF intEnd > p
        THEN [type |-> "INTEGER", end |-> intEnd]
        ELSE IF one = <<"'">>
        THEN IF Slice(s, p + 1, p + 3) = <<"\\", "n">>
                /\ Slice(s, p + 3, p + 4) = <<"'">>
             THEN [type |-> "CHAR", end |-> p + 4]
             ELSE IF Len(s) >= p + 3 /\ At(s, p + 1) \notin Spaces \ {" "}
                     /\ At(s, p + 2) = "'"
             THEN [type |-> "CHAR", end |-> p + 3]
             ELSE [type |-> "SyntaxError", end |-> p]
        ELSE IF Len(two) = 2 /\ SymbolType(two) # "none"
        THEN [type |-> SymbolType(two), end |-> p + 2]
        ELSE IF SymbolType(one) # "none"
        THEN [type |-> SymbolType(one), end |-> p + 1]
        ELSE IF At(s, p) \in Spaces
        THEN [type |-> "skip", end |-> ScanWhile(s, p, Spaces)]
        ELSE [type |-> "SyntaxError", end |-> p]

\* the scan from offset p with the tokens toks produced so far
RECURSIVE Scan(_, _, _)
Scan(s, p, toks) ==
    IF p >= Len(s) THEN [exc |-> "none", tokens |-> toks]
    ELSE LET l == LexemeAt(s, p)
         IN  IF l.type = "SyntaxError"
             THEN [exc |-> "WabbitSyntaxError", tokens |-> toks]
             ELSE IF l.type = "skip" THEN Scan(s, l.end, toks)
             ELSE Scan(s, l.end, Append(toks, PToken(l.type, Slice(s, p, l.end), p)))

\* parse_source(text): tokenize, then _parse_program
parse_source(src) ==
    LET lexed == Scan(src, 0, <<>>)
    IN  IF lexed.exc # "none" THEN Raise(lexed.exc, 0)
        ELSE parse_program(lexed.tokens)

(***************************************************************************)
(* The round trip: a source is parsed, the tree is formatted, and the      *)
(* formatted text is parsed again.                                         *)
(***************************************************************************)
\* the source expressions with exactly n operators and pairs of parentheses
RECURSIVE SourceExprs(_)
SourceExprs(n) ==
    IF n = 0 THEN { <<"1">> }
    ELSE { <<"(">> \o e \o <<")">> : e \in SourceExprs(n - 1) }
         \cup { <<"-">> \o e : e \in SourceExprs(n - 1) }
         \cup UNION { { l \o <<" ", op, " ">> \o r :
                            l \in SourceExprs(k), r \in SourceExprs(n - 1 - k),
                            op \in {"+", "*"} }
                      : k \in 0..(n - 1) }

\* a print or expression statement, with or without its closing semicolon
Sources ==
    UNION { { head \o e \o tail :
                  e \in SourceExprs(n),
                  head \in { <<>>, <<"p", "r", "i", "n", "t", " ">> },
                  tail \in { <<";">>, <<>> } }
            : n \in 0..MaxNodes }

RoundTripInit ==
    /\ rt_src \in Sources
    /\ rt_pc = "source"
    /\ rt_ast = <<>> /\ rt_text = <<>> /\ rt_ast2 = <<>>
    /\ LexIdle
    /\ ParserIdle
    /\ InterpIdle
    /\ EmitIdle
    /\ FormatIdle
    /\ AstIdle

\* parse_source(source) returns a tree
RoundTripParse ==
    /\ rt_pc = "source"
    /\ LET res == parse_source(rt_src)
       IN  /\ IsOk(res)
           /\ rt_ast' = res.node
    /\ rt_pc' = "parsed"
    /\ UNCHANGED <<rt_src, rt_text, rt_ast2, lexVars, parserVars, interpVars, emitVars,
               formatVars, astVars>>

\* parse_source(source) raises
RoundTripReject ==
    /\ rt_pc = "source"
    /\ ~IsOk(parse_source(rt_src))
    /\ rt_pc' = "rejected"
    /\ UNCHANGED <<rt_src, rt_ast, rt_text, rt_ast2, lexVars, parserVars, interpVars, emitVars,
               formatVars, astVars>>

\* format(tree)
RoundTripFormat ==
    /\ rt_pc = "parsed"
    /\ rt_text' = format(rt_ast)
    /\ rt_pc' = "formatted"
    /\ UNCHANGED <<rt_src, rt_ast, rt_ast2, lexVars, parserVars, interpVars, emitVars,
               formatVars, astVars>>

\* parse_source(formatted text): rt_ast2 is the result, a tree or an exception
RoundTripReparse ==
    /\ rt_pc = "formatted"
    /\ rt_ast2' = parse_source(rt_text)
    /\ rt_pc' = "reparsed"
    /\ UNCHANGED <<rt_src, rt_ast, rt_text, lexVars, parserVars, interpVars, emitVars,
               formatVars, astVars>>

RoundTripNext ==
    RoundTripParse \/ RoundTripReject \/ RoundTripFormat \/ RoundTripReparse

SpecRoundTrip == RoundTripInit /\ [][RoundTripNext]_vars

\* the tree without its source positions
RECURSIVE StripLocation(_)
StripLocationAll(nodes) == [i \in 1..Len(nodes) |-> StripLocation(nodes[i])]

StripLocation(node) ==
    IF node = NoneNode THEN node
    ELSE [f \in DOMAIN node |->
            IF f = "location" THEN NoLocation
            ELSE IF f \in {"left", "right", "operand", "expr", "test", "body",
                           "else_body", "type_", "return_type"}
            THEN StripLocation(node[f])
            ELSE IF f \in {"nodes", "args"} THEN StripLocationAll(node[f])
            ELSE IF f = "value" /\ node.kind \in {"PrintStatement", "ParenExpr",
                                                   "Return", "VarDecl", "ConstDecl"}
            THEN StripLocation(node[f])
            ELSE IF f = "name" /\ node.kind # "Type" THEN StripLocation(node[f])
            ELSE node[f]]

\* C3: when the formatted text of a parsed source has been parsed again, the
\* result is a tree, equal to the first tree once source positions are ignored
C3_RoundTrip ==
    rt_pc = "reparsed" =>
        /\ IsOk(rt_ast2)
        /\ StripLocation(rt_ast2.node) = StripLocation(rt_ast)

(***************************************************************************)
(* _interpret.py: runtime values.  A Python value is a record of its       *)
(* Python type py and its content v: an integer for int and for bool       *)
(* (False is 0, True is 1), the characters for str, the lexeme for float.  *)
(* A Wabbit value (_IntegerVar, _FloatVar, _BooleanVar, _CharVar) is a     *)
(* record of its class attribute type_ and its Python value.  Float        *)
(* arithmetic and the ordering of strings are outside the model: an        *)
(* operation on them ends as the exception "Unmodelled".                   *)
(***************************************************************************)
PyInt(n) == [py |-> "int", v |-> n]

PyBool(b) == [py |-> "bool", v |-> IF b THEN 1 ELSE 0]

PyStr(chars) == [py |-> "str", v |-> chars]

PyFloat(lexeme) == [py |-> "float", v |-> lexeme]

None == [type_ |-> "NoneType"]

IntegerVar(pyval) == [type_ |-> "int", value |-> pyval]

FloatVar(pyval) == [type_ |-> "float", value |-> pyval]

BooleanVar(pyval) == [type_ |-> "bool", value |-> pyval]

CharVar(pyval) == [type_ |-> "str", value |-> pyval]

\* type(self)(value)
SameClass(self, pyval) == [type_ |-> self.type_, value |-> pyval]

\* the truth value of a Python value
truthy(pyval) ==
    IF pyval.py \in {"int", "bool"} THEN pyval.v # 0 ELSE Len(pyval.v) > 0

\* int(text) for a run of digits
RECURSIVE int(_)
int(chars) ==
    IF Len(chars) = 0 THEN 0
    ELSE 10 * int(SubSeq(chars, 1, Len(chars) - 1))
         + (CHOOSE d \in 0..9 : <<"0", "1", "2", "3", "4", "5", "6", "7", "8", "9">>[d + 1]
                                   = chars[Len(chars)])

\* str(n) for an integer
RECURSIVE str_int(_)
str_int(n) ==
    IF n < 0 THEN <<"-">> \o str_int(-n)
    ELSE IF n < 10 THEN << <<"0", "1", "2", "3", "4", "5", "6", "7", "8", "9">>[n + 1] >>
    ELSE str_int(n \div 10) \o str_int(n % 10)

\* str(value), as print writes it
str(pyval) ==
    CASE pyval.py = "int" -> str_int(pyval.v)
      [] pyval.py = "bool" ->
           IF pyval.v = 1 THEN <<"T", "r", "u", "e">> ELSE <<"F", "a", "l", "s", "e">>
      [] pyval.py = "str" -> pyval.v
      [] pyval.py = "float" -> pyval.v

\* int(a / b): the quotient rounded toward zero
truncated_quotient(a, b) ==
    IF (a >= 0) = (b > 0) THEN (IF a >= 0 THEN a \div b ELSE (-a) \div (-b))
    ELSE -((IF a >= 0 THEN a ELSE -a) \div (IF b >= 0 THEN b ELSE -b))

\* a result: the exception raised ("none" if none) and the value returned
Returns(val) == [exc |-> "none", val |-> val]

Raises(exc) == [exc |-> exc, val |-> None]

IsNumber(pyval) == pyval.py \in {"int", "bool"}

\* Python's self.value <operation> other.value on two Python values
py_binary(operation, a, b) ==
    IF IsNumber(a) /\ IsNumber(b)
    THEN CASE operation = "+" -> Returns(PyInt(a.v + b.v))
           [] operation = "-" -> Returns(PyInt(a.v - b.v))
           [] operation = "*" -> Returns(PyInt(a.v * b.v))
           [] operation = "/" -> IF b.v = 0 THEN Raises("ZeroDivisionError")
                                 ELSE Raises("Unmodelled")
           [] operation = "==" -> Returns(PyBool(a.v = b.v))
           [] operation = "!=" -> Returns(PyBool(a.v # b.v))
           [] operation = "<" -> Returns(PyBool(a.v < b.v))
           [] operation = "<=" -> Returns(PyBool(a.v <= b.v))
           [] operation = ">" -> Returns(PyBool(a.v > b.v))
           [] operation = ">=" -> Returns(PyBool(a.v >= b.v))
    ELSE IF a.py = "str" /\ b.py = "str"
    THEN CASE operation = "+" -> Returns(PyStr(a.v \o b.v))
           [] operation \in {"-", "*", "/"} -> Raises("TypeError")
           [] operation = "==" -> Returns(PyBool(a.v = b.v))
           [] operation = "!=" -> Returns(PyBool(a.v # b.v))
           [] OTHER -> Raises("Unmodelled")
    ELSE Raises("Unmodelled")

\* the operation on the two values with no _assert_same_type
DataType_binary_unchecked(operation, self, other) ==
    LET r == py_binary(operation, self.value, other.value)
    IN  IF r.exc # "none" THEN r ELSE Returns(SameClass(self, r.val))

\* _DataType._assert_same_type, then the operation of the class of self;
\* None has none of the methods
DataType_binary(operation, self, other) ==
    IF self = None THEN Raises("AttributeError")
    ELSE IF operation \in {"&&", "||"} /\ self.type_ # "bool"
    THEN Raises("WabbitRuntimeError")
    ELSE IF other = None THEN Raises("AttributeError")
    ELSE IF self.type_ # other.type_ THEN Raises("WabbitTypeError")
    ELSE IF operation \in {"+", "-", "*"}
    THEN LET r == py_binary(operation, self.value, other.value)
         IN  IF r.exc # "none" THEN r ELSE Returns(SameClass(self, r.val))
    ELSE IF operation = "/"
    THEN IF self.type_ = "int"
         THEN IF other.value.v = 0 THEN Raises("ZeroDivisionError")
              ELSE Returns(SameClass(self, PyInt(truncated_quotient(self.value.v,
                                                                     other.value.v))))
         ELSE py_binary(operation, self.value, other.value)
    ELSE IF operation = "&&"
    THEN Returns(SameClass(self, IF truthy(self.value) THEN other.value
                                 ELSE self.value))
    ELSE IF operation = "||"
    THEN Returns(SameClass(self, IF truthy(self.value) THEN self.value
                                 ELSE other.value))
    ELSE LET r == py_binary(operation, self.value, other.value)
         IN  IF r.exc # "none" THEN r ELSE Returns(BooleanVar(r.val))

\* unary_minus, unary_plus, logical_not
DataType_unary(operation, self) ==
    IF self = None THEN Raises("AttributeError")
    ELSE CASE operation = "-" ->
                IF self.type_ = "int" THEN Returns(SameClass(self, PyInt(-self.value.v)))
                ELSE IF self.type_ = "float" THEN Raises("Unmodelled")
                ELSE Raises("WabbitRuntimeError")
           [] operation = "+" ->
                IF self.type_ \in {"int", "float"} THEN Returns(self)
                ELSE Raises("WabbitRuntimeError")
           [] operation = "!" ->
                IF self.type_ = "bool"
                THEN Returns(SameClass(self, PyBool(~truthy(self.value))))
                ELSE Raises("WabbitRuntimeError")
           [] OTHER -> Raises("WabbitRuntimeError")

(***************************************************************************)
(* _interpret.py: _Interpreter.  A visit takes the node and the state s    *)
(* it starts in, and gives the state it ends in: exc is the exception      *)
(* raised ("none" if none), val the value returned, exec_ctx the stack     *)
(* _exec_ctx of contexts (variables, constants), functions the one dict    *)
(* that every context's functions field refers to (visit_FuncCall hands    *)
(* the caller's dict to the new context), out what print has written, and  *)
(* trace the record of what was executed.                                  *)
(***************************************************************************)
ExecCtx(variables) == [variables |-> variables, constants |-> <<>>]

WithVal(s, val) == [s EXCEPT !.val = val]

Throw(s, exc) == [s EXCEPT !.exc = exc, !.val = None]

\* the state after a value operation that returned or raised
Lift(s, r) == IF r.exc # "none" THEN Throw(s, r.exc) ELSE WithVal(s, r.val)

curr_ctx(s) == s.exec_ctx[Len(s.exec_ctx)]

\* the record of execution: exec (visit_Statements visits the statement
\* node), return (visit_Return returns val), call_end (visit_FuncCall has the
\* result val of the body), test (visit_While evaluates the test of node),
\* loop_end (visit_While leaves its loop); depth is len(_exec_ctx)
Event(ev, node, val, s) ==
    [ev |-> ev, node |-> node, val |-> val, depth |-> Len(s.exec_ctx)]

Log(s, ev, node, val) == [s EXCEPT !.trace = Append(@, Event(ev, node, val, s))]

RECURSIVE Interpreter_visit(_, _)

Interpreter_visit_Integer(node, s) == WithVal(s, IntegerVar(PyInt(int(node.value))))

Interpreter_visit_Float(node, s) == WithVal(s, FloatVar(PyFloat(node.value)))

Interpreter_visit_Boolean(node, s) == WithVal(s, BooleanVar(PyBool(node.value = True)))

Interpreter_visit_Character(node, s) == WithVal(s, CharVar(PyStr(node.value)))

Interpreter_visit_Name(node, s) ==
    IF node.value \in DOMAIN curr_ctx(s).variables
    THEN WithVal(s, curr_ctx(s).variables[node.value])
    ELSE IF node.value \in DOMAIN curr_ctx(s).constants
    THEN WithVal(s, curr_ctx(s).constants[node.value])
    ELSE Throw(s, "WabbitRuntimeError")

\* print(res.value, end=""): None has no attribute value
Interpreter_visit_PrintStatement(node, s) ==
    Then(Interpreter_visit(node.value, s), LAMBDA res :
         IF res.val = None THEN Throw(res, "AttributeError")
         ELSE [res EXCEPT !.out = Append(@, str(res.val.value)), !.val = None])

Interpreter_visit_BinOp(node, s) ==
    Then(Interpreter_visit(node.left, s), LAMBDA val1 :
    Then(Interpreter_visit(node.right, val1), LAMBDA val2 :
         IF node.operation \in { <<"+">>, <<"-">>, <<"*">>, <<"/">> }
         THEN Lift(val2, DataType_binary(node.operation[1], val1.val, val2.val))
         ELSE WithVal(val2, None)))

Interpreter_visit_UnaryOp(node, s) ==
    IF node.operation \in { <<"-">>, <<"+">>, <<"!">> }
    THEN Then(Interpreter_visit(node.operand, s), LAMBDA val :
              Lift(val, DataType_unary(node.operation[1], val.val)))
    ELSE Throw(s, "WabbitRuntimeError")

operation_name(operation) ==
    CASE operation = <<"=", "=">> -> "=="
      [] operation = <<"!", "=">> -> "!="
      [] operation = <<">">> -> ">"
      [] operation = <<">", "=">> -> ">="
      [] operation = <<"<">> -> "<"
      [] operation = <<"<", "=">> -> "<="
      [] operation = <<"&", "&">> -> "&&"
      [] operation = <<"|", "|">> -> "||"
      [] OTHER -> "none"

Interpreter_visit_LogicalOp(node, s) ==
    Then(Interpreter_visit(node.left, s), LAMBDA left :
    Then(Interpreter_visit(node.right, left), LAMBDA right :
         IF operation_name(node.operation) = "none" THEN Throw(right, "RuntimeError")
         ELSE Lift(right, DataType_binary(operation_name(node.operation),
                                          left.val, right.val))))

Interpreter_visit_ParenExpr(node, s) == Interpreter_visit(node.value, s)

\* `for s in node.nodes: res = self.visit(s)`, from the statement at index i;
\* the value of the state is res
RECURSIVE Statements_loop(_, _, _)
Statements_loop(nodes, i, s) ==
    IF i > Len(nodes) THEN s
    ELSE Then(Interpreter_visit(nodes[i], Log(s, "exec", nodes[i], None)),
              LAMBDA res : Statements_loop(nodes, i + 1, res))

Interpreter_visit_Statements(node, s) ==
    Statements_loop(node.nodes, 1, WithVal(s, None))

Interpreter_visit_ExprAsStatement(node, s) ==
    Then(Interpreter_visit(node.expr, s), LAMBDA res : WithVal(res, None))

\* variables[var_name] = value, in the current context
SetVariable(s, var_name, value) ==
    [s EXCEPT !.exec_ctx[Len(s.exec_ctx)].variables = (var_name :> value) @@ @,
              !.val = None]

SetConstant(s, var_name, value) ==
    [s EXCEPT !.exec_ctx[Len(s.exec_ctx)].constants = (var_name :> value) @@ @,
              !.val = None]

\* the one character "\0" is written "NUL"
default_var_type(node) ==
    IF node.type_ = NoneNode THEN Raises("AssertionError")
    ELSE CASE node.type_.name = <<"i", "n", "t">> -> Returns(IntegerVar(PyInt(0)))
           [] node.type_.name = <<"f", "l", "o", "a", "t">> ->
                Returns(FloatVar(PyFloat(<<"0", ".", "0">>)))
           [] node.type_.name = <<"b", "o", "o", "l">> ->
                Returns(BooleanVar(PyBool(FALSE)))
           [] node.type_.name = <<"c", "h", "a", "r">> ->
                Returns(CharVar(PyStr(<<"NUL">>)))
           [] OTHER -> Raises("AssertionError")

var_type(node) ==
    IF node = NoneNode THEN Raises("AssertionError")
    ELSE CASE node.name = <<"i", "n", "t">> -> Returns("int")
           [] node.name = <<"f", "l", "o", "a", "t">> -> Returns("float")
           [] node.name = <<"b", "o", "o", "l">> -> Returns("bool")
           [] node.name = <<"c", "h", "a", "r">> -> Returns("str")
           [] OTHER -> Raises("AssertionError")

\* a declaration that binds the name whether or not it is bound already
Interpreter_visit_VarDecl_rebinding(node, s) ==
    IF node.value # NoneNode
    THEN Then(Interpreter_visit(node.value, s), LAMBDA val :
              SetVariable(val, node.name.value, val.val))
    ELSE Then(Lift(s, default_var_type(node)), LAMBDA val :
              SetVariable(val, node.name.value, val.val))

Interpreter_visit_VarDecl(node, s) ==
    IF node.name.value \in DOMAIN curr_ctx(s).variables
       \/ node.name.value \in DOMAIN curr_ctx(s).constants
    THEN Throw(s, "WabbitRuntimeError")
    ELSE IF node.value # NoneNode
    THEN Then(Interpreter_visit(node.value, s), LAMBDA val :
              SetVariable(val, node.name.value, val.val))
    ELSE Then(Lift(s, default_var_type(node)), LAMBDA val :
              SetVariable(val, node.name.value, val.val))

Interpreter_visit_ConstDecl(node, s) ==
    IF node.name.value \in DOMAIN curr_ctx(s).constants
       \/ node.name.value \in DOMAIN curr_ctx(s).variables
    THEN Throw(s, "WabbitRuntimeError")
    ELSE Then(Interpreter_visit(node.value, s), LAMBDA val :
              SetConstant(val, node.name.value, val.val))

\* _VarDef(type_=..., name=...)
Interpreter_visit_FuncArg(farg_node) ==
    LET type_ == var_type(farg_node.type_)
    IN  IF type_.exc # "none" THEN type_
        ELSE Returns([type_ |-> type_.val, name |-> farg_node.name.value])

\* the first exception among the results rs, or "none"
FirstException(rs) ==
    IF \A i \in 1..Len(rs) : rs[i].exc = "none" THEN "none"
    ELSE rs[CHOOSE i \in 1..Len(rs) :
                /\ rs[i].exc # "none"
                /\ \A j \in 1..(i - 1) : rs[j].exc = "none"].exc

\* _Function(name=..., args=..., ret_type=..., body=...) is stored in the
\* functions dict of the current context
Interpreter_visit_FuncDef(func_def, s) ==
    LET args == [i \in 1..Len(func_def.args) |->
                     Interpreter_visit_FuncArg(func_def.args[i])]
        ret_type == var_type(func_def.return_type)
    IN  IF FirstException(args) # "none" THEN Throw(s, FirstException(args))
        ELSE IF ret_type.exc # "none" THEN Throw(s, ret_type.exc)
        ELSE [s EXCEPT !.functions =
                           (func_def.name.value :>
                                [name |-> func_def.name.value,
                                 args |-> [i \in 1..Len(args) |-> args[i].val],
                                 ret_type |-> ret_type.val,
                                 body |-> func_def.body]) @@ @,
                       !.val = None]

\* `for argi, arg in enumerate(callf.args)`: the arguments are evaluated in
\* the caller's context; the value of the state is func_ctx.variables
RECURSIVE FuncCall_args_loop(_, _, _, _)
FuncCall_args_loop(callf, func, argi, s) ==
    IF argi > Len(callf.args) THEN s
    ELSE Then(Interpreter_visit(callf.args[argi], WithVal(s, s.val)), LAMBDA arg_value :
              IF argi > Len(func.args) THEN Throw(arg_value, "IndexError")
              ELSE FuncCall_args_loop(
                       callf, func, argi + 1,
                       WithVal(arg_value,
                               (func.args[argi].name :> arg_value.val) @@ s.val)))

\* a call that leaves the context it pushed on the stack
Interpreter_visit_FuncCall_without_pop(callf, s) ==
    IF callf.name.value \notin DOMAIN s.functions THEN Throw(s, "KeyError")
    ELSE Then(FuncCall_args_loop(callf, s.functions[callf.name.value], 1,
                                 WithVal(s, <<>>)),
              LAMBDA bound :
         Then(Interpreter_visit(
                  s.functions[callf.name.value].body,
                  [bound EXCEPT !.exec_ctx = Append(@, ExecCtx(bound.val)),
                                !.val = None]),
              LAMBDA res : Log(res, "call_end", callf, res.val)))

Interpreter_visit_FuncCall(callf, s) ==
    IF callf.name.value \notin DOMAIN s.functions THEN Throw(s, "KeyError")
    ELSE Then(FuncCall_args_loop(callf, s.functions[callf.name.value], 1,
                                 WithVal(s, <<>>)),
              LAMBDA bound :
         Then(Interpreter_visit(
                  s.functions[callf.name.value].body,
                  [bound EXCEPT !.exec_ctx = Append(@, ExecCtx(bound.val)),
                                !.val = None]),
              LAMBDA res :
                  [Log(res, "call_end", callf, res.val)
                       EXCEPT !.exec_ctx = SubSeq(@, 1, Len(@) - 1)]))

Interpreter_visit_Return(node, s) ==
    Then(Interpreter_visit(node.value, s), LAMBDA res :
         Log(res, "return", node, res.val))

\* an assignment that binds the name in the global context
Interpreter_visit_Assignment_global(node, s) ==
    IF node.left.kind # "Name" THEN Throw(s, "AssertionError")
    ELSE Then(Interpreter_visit(node.right, s), LAMBDA value :
              [value EXCEPT !.exec_ctx[1].variables =
                                (node.left.value :> value.val) @@ @])

\* `assert isinstance(node.left, Name)`
Interpreter_visit_Assignment(node, s) ==
    IF node.left.kind # "Name" THEN Throw(s, "AssertionError")
    ELSE Then(Interpreter_visit(node.right, s), LAMBDA value :
              [SetVariable(value, node.left.value, value.val)
                   EXCEPT !.val = value.val])

\* an if whose arms run in a scope of their own: what they bind is dropped
Interpreter_visit_IfElse_scoped(node, s) ==
    Then(Interpreter_visit(node.test, s), LAMBDA test_res :
         IF test_res.val = None \/ test_res.val.type_ # "bool"
         THEN Throw(test_res, "WabbitRuntimeError")
         ELSE IF truthy(test_res.val.value)
         THEN Then(Interpreter_visit(node.body, test_res), LAMBDA done :
                   [done EXCEPT !.exec_ctx = test_res.exec_ctx, !.val = None])
         ELSE IF node.else_body # NoneNode
         THEN Then(Interpreter_visit(node.else_body, test_res), LAMBDA done :
                   [done EXCEPT !.exec_ctx = test_res.exec_ctx, !.val = None])
         ELSE WithVal(test_res, None))

Interpreter_visit_IfElse(node, s) ==
    Then(Interpreter_visit(node.test, s), LAMBDA test_res :
         IF test_res.val = None \/ test_res.val.type_ # "bool"
         THEN Throw(test_res, "WabbitRuntimeError")
         ELSE IF truthy(test_res.val.value)
         THEN Then(Interpreter_visit(node.body, test_res), LAMBDA done :
                   WithVal(done, None))
         ELSE IF node.else_body # NoneNode
         THEN Then(Interpreter_visit(node.else_body, test_res), LAMBDA done :
                   WithVal(done, None))
         ELSE WithVal(test_res, None))

\* the `while True:` loop of visit_While
RECURSIVE While_loop(_, _)
While_loop(node, s) ==
    Then(Interpreter_visit(node.test, Log(s, "test", node, None)), LAMBDA test_res :
         IF test_res.val = None \/ test_res.val.type_ # "bool"
         THEN Throw(test_res, "WabbitRuntimeError")
         ELSE IF truthy(test_res.val.value)
         THEN Then(Interpreter_visit(node.body, test_res), LAMBDA done :
                   While_loop(node, done))
         ELSE WithVal(Log(test_res, "loop_end", node, None), None))

Interpreter_visit_While(node, s) == While_loop(node, s)

\* Visitor.visit: the method visit_<class name>.  _Interpreter defines no
\* visit_Break, visit_Continue and visit_Type: those of Visitor raise
\* RuntimeError("Not implemented").  visit(None) fails the assertion that
\* the method exists.
Interpreter_visit(node, s) ==
    CASE node.kind = "Integer" -> Interpreter_visit_Integer(node, s)
      [] node.kind = "Float" -> Interpreter_visit_Float(node, s)
      [] node.kind = "Boolean" -> Interpreter_visit_Boolean(node, s)
      [] node.kind = "Character" -> Interpreter_visit_Character(node, s)
      [] node.kind = "Name" -> Interpreter_visit_Name(node, s)
      [] node.kind = "PrintStatement" -> Interpreter_visit_PrintStatement(node, s)
      [] node.kind = "BinOp" -> Interpreter_visit_BinOp(node, s)
      [] node.kind = "UnaryOp" -> Interpreter_visit_UnaryOp(node, s)
      [] node.kind = "LogicalOp" -> Interpreter_visit_LogicalOp(node, s)
      [] node.kind = "ParenExpr" -> Interpreter_visit_ParenExpr(node, s)
      [] node.kind = "Statements" -> Interpreter_visit_Statements(node, s)
      [] node.kind = "ExprAsStatement" -> Interpreter_visit_ExprAsStatement(node, s)
      [] node.kind = "VarDecl" -> Interpreter_visit_VarDecl(node, s)
      [] node.kind = "ConstDecl" -> Interpreter_visit_ConstDecl(node, s)
      [] node.kind = "FuncArg" -> Lift(s, Interpreter_visit_FuncArg(node))
      [] node.kind = "FuncDef" -> Interpreter_visit_FuncDef(node, s)
      [] node.kind = "FuncCall" -> Interpreter_visit_FuncCall(node, s)
      [] node.kind = "Return" -> Interpreter_visit_Return(node, s)
      [] node.kind = "Assignment" -> Interpreter_visit_Assignment(node, s)
      [] node.kind = "IfElse" -> Interpreter_visit_IfElse(node, s)
      [] node.kind = "While" -> Interpreter_visit_While(node, s)
      [] node.kind \in {"Break", "Continue", "Type"} -> Throw(s, "RuntimeError")
      [] node.kind = "None" -> Throw(s, "AssertionError")

(***************************************************************************)
(* The interpreter as a state machine: interpret(ast) visits the root      *)
(* block, whose loop executes one top-level statement per step.            *)
(***************************************************************************)
IntegerLiteral(digit) == Integer(NoLocation, <<digit>>)

Variable(name) == Name(NoLocation, <<name>>)

Block(nodes) == Statements(nodes)

PrintOf(expr) == PrintStatement(NoLocation, expr)

\* name = name + 1;
Increment(name) ==
    ExprAsStatement(Assignment(NoLocation, Variable(name),
                               BinOp(NoLocation, <<"+">>, Variable(name),
                                     IntegerLiteral("1"))))

\* name < digit
Below(name, digit) ==
    LogicalOp(NoLocation, <<"<">>, Variable(name), IntegerLiteral(digit))

\* name == digit
Equals(name, digit) ==
    LogicalOp(NoLocation, <<"=", "=">>, Variable(name), IntegerLiteral(digit))

\* the pieces of a function body
FunctionPieces ==
    { \* return 1;    return 2;    print 3;
      << Return(NoLocation, IntegerLiteral("1")) >>,
      << Return(NoLocation, IntegerLiteral("2")) >>,
      << PrintOf(IntegerLiteral("3")) >>,
      \* if true { return 1; }
      << IfElse(NoLocation, Boolean(NoLocation, True),
                Block(<< Return(NoLocation, IntegerLiteral("1")) >>), NoneNode) >>,
      \* if false { print 3; } else { return 2; }
      << IfElse(NoLocation, Boolean(NoLocation, False),
                Block(<< PrintOf(IntegerLiteral("3")) >>),
                Block(<< Return(NoLocation, IntegerLiteral("2")) >>)) >>,
      \* i = 0; while i < 1 { i = i + 1; return 1; }
      << ExprAsStatement(Assignment(NoLocation, Variable("i"), IntegerLiteral("0"))),
         While(NoLocation, Below("i", "1"),
               Block(<< Increment("i"),
                        Return(NoLocation, IntegerLiteral("1")) >>)) >> }

\* the pieces of a loop body
LoopPieces ==
    { \* break;    continue;    print i;
      << Break(NoLocation) >>,
      << Continue(NoLocation) >>,
      << PrintOf(Variable("i")) >>,
      \* if i == 1 { break; }
      << IfElse(NoLocation, Equals("i", "1"),
                Block(<< Break(NoLocation) >>), NoneNode) >>,
      \* if i == 1 { continue; }
      << IfElse(NoLocation, Equals("i", "1"),
                Block(<< Continue(NoLocation) >>), NoneNode) >>,
      \* k = 0; while k < 1 { k = k + 1; break; }
      << ExprAsStatement(Assignment(NoLocation, Variable("k"), IntegerLiteral("0"))),
         While(NoLocation, Below("k", "1"),
               Block(<< Increment("k"), Break(NoLocation) >>)) >> }

\* the concatenations of 1..n pieces
RECURSIVE Bodies(_, _)
Bodies(pieces, n) ==
    IF n = 1 THEN pieces
    ELSE Bodies(pieces, n - 1)
         \cup { b \o piece : b \in Bodies(pieces, n - 1), piece \in pieces }

\* func f() int { body }  print f();
FunctionProgram(body) ==
    << FuncDef(NoLocation, Variable("f"), <<>>, Type(NoLocation, <<"i", "n", "t">>),
               Block(body)),
       PrintOf(FuncCall(NoLocation, Variable("f"), <<>>)) >>

\* var i = 0;  while i < 2 { i = i + 1; body }  print 9;
LoopProgram(body) ==
    << VarDecl(NoLocation, Variable("i"), IntegerLiteral("0"), NoneNode),
       While(NoLocation, Below("i", "2"), Block(<<Increment("i")>> \o body)),
       PrintOf(IntegerLiteral("9")) >>

IntType == Type(NoLocation, <<"i", "n", "t">>)

\* func f(args) int { return <expr>; }
FunctionReturning(args, expr) ==
    FuncDef(NoLocation, Variable("f"), args, IntType,
            Block(<< Return(NoLocation, expr) >>))

\* var x = 1;    const x = 1;    var x int;    (for a name and a digit)
Declarations(name, digit) ==
    { VarDecl(NoLocation, Variable(name), IntegerLiteral(digit), NoneNode),
      ConstDecl(NoLocation, Variable(name), IntegerLiteral(digit), NoneNode),
      VarDecl(NoLocation, Variable(name), NoneNode, IntType) }

\* <declaration of x>  <declaration of x or of y>  print x;
DeclPrograms ==
    { << first, second, PrintOf(Variable("x")) >> :
          first \in Declarations("x", "1"),
          second \in Declarations("x", "2") \cup Declarations("y", "2") }

\* [declaration of x]  func f() int { return x; }  print f();
\* func f(x int) int { return x; }  print f(5);
ScopePrograms ==
    { global \o << FunctionReturning(<<>>, Variable("x")),
                   PrintOf(FuncCall(NoLocation, Variable("f"), <<>>)) >> :
          global \in { <<>> } \cup { <<d>> : d \in Declarations("x", "1") } }
    \cup { << FunctionReturning(<< FuncArg(NoLocation, Variable("x"), IntType) >>,
                                Variable("x")),
              PrintOf(FuncCall(NoLocation, Variable("f"), << IntegerLiteral("5") >>)) >> }

\* y = 1; print y;        var y = 0; y = 1; print y;
AssignPrograms ==
    { global \o << ExprAsStatement(Assignment(NoLocation, Variable("y"),
                                              IntegerLiteral("1"))),
                   PrintOf(Variable("y")) >> :
          global \in { <<>>, << VarDecl(NoLocation, Variable("y"), IntegerLiteral("0"),
                                       NoneNode) >> } }

\* a literal of each type: 1, 1.5, true, 'a'
Literals ==
    { IntegerLiteral("1"), Float(NoLocation, <<"1", ".", "5">>),
      Boolean(NoLocation, True), Character(NoLocation, <<"a">>) }

ArithmeticOperations == { <<"+">>, <<"-">>, <<"*">>, <<"/">> }

ComparisonOperations ==
    { <<"=", "=">>, <<"!", "=">>, <<"<">>, <<"<", "=">>, <<">">>, <<">", "=">> }

BinaryExpr(operation, left, right) ==
    IF operation \in ArithmeticOperations
    THEN BinOp(NoLocation, operation, left, right)
    ELSE LogicalOp(NoLocation, operation, left, right)

\* float arithmetic and the ordering of strings are left out of the model of
\* the host's values: the programs that operate on two floats, two
\* characters or two booleans
SameTypeUnmodelled ==
    { << PrintOf(BinaryExpr(operation, v, v)) >> :
          operation \in ArithmeticOperations \cup ComparisonOperations,
          v \in Literals \ { IntegerLiteral("1") } }

\* print <literal> <operation> <literal>;  for two literals of different
\* types, or two integers
OperatorPrograms ==
    { << PrintOf(BinaryExpr(operation, left, right)) >> :
          operation \in ArithmeticOperations \cup ComparisonOperations,
          left \in Literals, right \in Literals } \ SameTypeUnmodelled

\* print true;    print false;    print 1;    print 'a';
PrintPrograms ==
    { << PrintOf(v) >> :
          v \in { Boolean(NoLocation, True), Boolean(NoLocation, False),
                  IntegerLiteral("1"), Character(NoLocation, <<"a">>) } }

\* print g();                                    (no function g)
\* func f() int { return 1; }  print f(2);       (one argument too many)
\* print 1 / 0;
\* func f() int { print 3; }  print f();         (the body produces no value)
FailurePrograms ==
    { << PrintOf(FuncCall(NoLocation, Variable("g"), <<>>)) >>,
      << FunctionReturning(<<>>, IntegerLiteral("1")),
         PrintOf(FuncCall(NoLocation, Variable("f"), << IntegerLiteral("2") >>)) >>,
      << PrintOf(BinOp(NoLocation, <<"/">>, IntegerLiteral("1"), IntegerLiteral("0"))) >>,
      FunctionProgram(<< PrintOf(IntegerLiteral("3")) >>) }

\* name = digit
AssignDigit(name, digit) ==
    Assignment(NoLocation, Variable(name), IntegerLiteral(digit))

CallOf(name, args) == FuncCall(NoLocation, Variable(name), args)

IntArg(name) == FuncArg(NoLocation, Variable(name), IntType)

\* the programs that call a function from the global context
CallPrograms ==
    { \* var y = 0;  func f(a int, b int) int { return b; }
      \* print f(y = 1, y = 2);  print y;
      << VarDecl(NoLocation, Variable("y"), IntegerLiteral("0"), NoneNode),
         FunctionReturning(<< IntArg("a"), IntArg("b") >>, Variable("b")),
         PrintOf(CallOf("f", << AssignDigit("y", "1"), AssignDigit("y", "2") >>)),
         PrintOf(Variable("y")) >>,
      \* var x = 1;  func f(a int) int { return a; }  print f(x);
      << VarDecl(NoLocation, Variable("x"), IntegerLiteral("1"), NoneNode),
         FunctionReturning(<< IntArg("a") >>, Variable("a")),
         PrintOf(CallOf("f", << Variable("x") >>)) >>,
      \* func g() int { return 4; }  func f() int { return g(); }  print f();
      << FuncDef(NoLocation, Variable("g"), <<>>, IntType,
                 Block(<< Return(NoLocation, IntegerLiteral("4")) >>)),
         FunctionReturning(<<>>, CallOf("g", <<>>)),
         PrintOf(CallOf("f", <<>>)) >> }
    \cup
    \* <declaration of x>  const c = 2;
    \* func f() int { x = 5; c = 6; <var x = 7; or nothing> return 3; }
    \* print f();  print x;
    { << decl, ConstDecl(NoLocation, Variable("c"), IntegerLiteral("2"), NoneNode),
         FuncDef(NoLocation, Variable("f"), <<>>, IntType,
                 Block(<< ExprAsStatement(AssignDigit("x", "5")),
                          ExprAsStatement(AssignDigit("c", "6")) >>
                       \o more
                       \o << Return(NoLocation, IntegerLiteral("3")) >>)),
         PrintOf(CallOf("f", <<>>)),
         PrintOf(Variable("x")) >> :
          decl \in Declarations("x", "1"),
          more \in { <<>>, << VarDecl(NoLocation, Variable("z"), IntegerLiteral("7"),
                                      NoneNode) >> } }

\* const c = 1;  <statements>  print c;
ConstPrograms ==
    { << ConstDecl(NoLocation, Variable("c"), IntegerLiteral("1"), NoneNode) >>
      \o between \o << PrintOf(Variable("c")) >> :
          between \in { <<>>,
                        << ExprAsStatement(AssignDigit("c", "2")) >>,
                        << PrintOf(IntegerLiteral("3")),
                           ExprAsStatement(AssignDigit("c", "2")) >>,
                        << VarDecl(NoLocation, Variable("y"), IntegerLiteral("2"),
                                   NoneNode),
                           Increment("y") >> } }

\* var i = 0;  while i < <digit> { i = i + 1; <declaration of z> }  print z;
\* if <test> { <declaration of z> } [else { <declaration of z> }]  print z;
BlockDeclPrograms ==
    { << VarDecl(NoLocation, Variable("i"), IntegerLiteral("0"), NoneNode),
         While(NoLocation, Below("i", digit), Block(<< Increment("i"), decl >>)),
         PrintOf(Variable("z")) >> :
          digit \in {"1", "2"}, decl \in Declarations("z", "1") }
    \cup
    { << IfElse(NoLocation, Boolean(NoLocation, test), Block(<<decl>>), else_body),
         PrintOf(Variable("z")) >> :
          test \in {True, False}, decl \in Declarations("z", "1"),
          else_body \in { NoneNode } \cup { Block(<<d>>) : d \in Declarations("z", "2") } }

Programs ==
    { Block(FunctionProgram(body)) : body \in Bodies(FunctionPieces, MaxBody) }
    \cup { Block(LoopProgram(body)) : body \in Bodies(LoopPieces, MaxBody) }
    \cup { Block(nodes) : nodes \in DeclPrograms \cup ScopePrograms \cup AssignPrograms
                                       \cup OperatorPrograms \cup PrintPrograms
                                       \cup FailurePrograms \cup CallPrograms
                                       \cup ConstPrograms \cup BlockDeclPrograms }

\* _Interpreter(): one global context
InterpInit ==
    /\ i_prog \in Programs
    /\ i_next = 1
    /\ i_pc = "running"
    /\ i_exec_ctx = << ExecCtx(<<>>) >>
    /\ i_functions = <<>>
    /\ i_out = <<>>
    /\ i_exc = "none"
    /\ i_trace = <<>>
    /\ LexIdle
    /\ ParserIdle
    /\ RoundTripIdle
    /\ EmitIdle
    /\ FormatIdle
    /\ AstIdle

InterpState ==
    [exc |-> i_exc, val |-> None, exec_ctx |-> i_exec_ctx,
     functions |-> i_functions, out |-> i_out, trace |-> i_trace]

\* `res = self.visit(s)` of the root block's loop
VisitNext ==
    Interpreter_visit(i_prog.nodes[i_next],
                      Log(InterpState, "exec", i_prog.nodes[i_next], None))

InterpApply(s) ==
    /\ i_exec_ctx' = s.exec_ctx
    /\ i_functions' = s.functions
    /\ i_out' = s.out
    /\ i_exc' = s.exc
    /\ i_trace' = s.trace
    /\ UNCHANGED <<i_prog, lexVars, parserVars, roundTripVars, emitVars,
               formatVars, astVars>>

\* the next top-level statement is executed
ExecStatement ==
    /\ i_pc = "running"
    /\ i_next <= Len(i_prog.nodes)
    /\ IsOk(VisitNext)
    /\ i_next' = i_next + 1
    /\ i_pc' = "running"
    /\ InterpApply(VisitNext)

\* the next top-level statement raises
StatementRaises ==
    /\ i_pc = "running"
    /\ i_next <= Len(i_prog.nodes)
    /\ ~IsOk(VisitNext)
    /\ i_next' = i_next
    /\ i_pc' = "raised"
    /\ InterpApply(VisitNext)

\* the loop of the root block is over: interpret returns
InterpretReturns ==
    /\ i_pc = "running"
    /\ i_next > Len(i_prog.nodes)
    /\ i_pc' = "returned"
    /\ UNCHANGED <<i_prog, i_next, i_exec_ctx, i_functions, i_out, i_exc, i_trace,
                   lexVars, parserVars, roundTripVars, emitVars,
               formatVars, astVars>>

InterpNext == ExecStatement \/ StatementRaises \/ InterpretReturns

SpecInterp == InterpInit /\ [][InterpNext]_vars

(***************************************************************************)
(* Return, break and continue.                                             *)
(***************************************************************************)
\* C1: once a Return has executed inside a function body, the next thing
\* that happens is that the enclosing call has the Return's value as its
\* result: no statement executes in between
C1_ReturnUnwindsToCall ==
    \A i \in 1..Len(i_trace) :
        i_trace[i].ev = "return" /\ i_trace[i].depth >= 2 =>
            /\ i < Len(i_trace)
            /\ i_trace[i + 1].ev = "call_end"
            /\ i_trace[i + 1].depth = i_trace[i].depth
            /\ i_trace[i + 1].val = i_trace[i].val

\* the tests of loops that are running when event i happens
OpenLoops(i) ==
    { j \in 1..(i - 1) :
        /\ i_trace[j].ev = "test"
        /\ \A k \in (j + 1)..(i - 1) :
               ~(i_trace[k].ev = "loop_end" /\ i_trace[k].node = i_trace[j].node) }

InnermostLoop(i) == i_trace[CHOOSE j \in OpenLoops(i) : \A k \in OpenLoops(i) : k <= j].node

\* C2: once a break has executed inside a loop, the next thing that happens
\* is that the innermost loop ends; once a continue has executed, the next
\* thing is that the innermost loop evaluates its test again
C2_BreakAndContinue ==
    \A i \in 1..Len(i_trace) :
        /\ i_trace[i].ev = "exec"
        /\ i_trace[i].node.kind \in {"Break", "Continue"}
        /\ OpenLoops(i) # {}
        => /\ i < Len(i_trace)
           /\ i_trace[i + 1].node = InnermostLoop(i)
           /\ i_trace[i + 1].ev =
                  IF i_trace[i].node.kind = "Break" THEN "loop_end" ELSE "test"

(***************************************************************************)
(* Names, declarations, operators, print and failures: what one step of    *)
(* the root block does.                                                     *)
(***************************************************************************)
\* the root block is about to visit its next statement, NextNode, in the
\* global context
AtStatement == i_pc = "running" /\ i_next <= Len(i_prog.nodes)

NextNode == i_prog.nodes[i_next]

GlobalCtx == i_exec_ctx[Len(i_exec_ctx)]

Bound(name, ctx) == name \in DOMAIN ctx.variables \cup DOMAIN ctx.constants

Binding(name, ctx) ==
    IF name \in DOMAIN ctx.variables THEN ctx.variables[name] ELSE ctx.constants[name]

StatementRaised(exc) == i_pc' = "raised" /\ i_exc' = exc

\* `print f();` where f takes no arguments and its body is `return <name>;`
PrintsCallReturningName ==
    /\ AtStatement
    /\ NextNode.kind = "PrintStatement"
    /\ NextNode.value.kind = "FuncCall"
    /\ NextNode.value.args = <<>>
    /\ NextNode.value.name.value \in DOMAIN i_functions
    /\ LET func == i_functions[NextNode.value.name.value]
       IN  /\ func.args = <<>>
           /\ Len(func.body.nodes) = 1
           /\ func.body.nodes[1].kind = "Return"
           /\ func.body.nodes[1].value.kind = "Name"

ReturnedName == i_functions[NextNode.value.name.value].body.nodes[1].value.value

\* C13: a name read inside a function body that the call's own context
\* does not bind has the value that the global context binds it to, and
\* only a name that no context binds raises WabbitRuntimeError
C13_NameResolvesThroughStack ==
    [][PrintsCallReturningName =>
           IF Bound(ReturnedName, GlobalCtx)
           THEN /\ i_pc' = "running"
                /\ i_out' = Append(i_out, str(Binding(ReturnedName, GlobalCtx).value))
           ELSE StatementRaised("WabbitRuntimeError")]_vars

\* C14: a VarDecl or ConstDecl of a name that the current context binds, as
\* a variable or as a constant, raises WabbitRuntimeError and leaves the
\* variables and the constants of every context as they were
C14_RedeclarationRaises ==
    [][/\ AtStatement
       /\ NextNode.kind \in {"VarDecl", "ConstDecl"}
       /\ Bound(NextNode.name.value, GlobalCtx)
       => /\ StatementRaised("WabbitRuntimeError")
          /\ i_exec_ctx' = i_exec_ctx]_vars

\* a constant was declared again as a variable, and a variable as a constant
C14_Witness ==
    /\ i_pc = "raised"
    /\ i_exc = "WabbitRuntimeError"
    /\ NextNode.kind \in {"VarDecl", "ConstDecl"}
    /\ \/ NextNode.kind = "VarDecl" /\ NextNode.name.value \in DOMAIN GlobalCtx.constants
       \/ NextNode.kind = "ConstDecl" /\ NextNode.name.value \in DOMAIN GlobalCtx.variables

\* `print <literal> <operation> <literal>;` for an arithmetic or comparison
\* operation and literals of two different types
PrintsMixedOperation ==
    /\ AtStatement
    /\ NextNode.kind = "PrintStatement"
    /\ NextNode.value.kind \in {"BinOp", "LogicalOp"}
    /\ NextNode.value.operation \in ArithmeticOperations \cup ComparisonOperations
    /\ NextNode.value.left \in Literals
    /\ NextNode.value.right \in Literals
    /\ NextNode.value.left.kind # NextNode.value.right.kind

\* C15: each of + - * / == != < <= > >= applied to two values of different
\* types (int, float, bool, char) raises WabbitTypeError, and nothing is
\* printed
C15_MixedTypesRaiseTypeError ==
    [][PrintsMixedOperation =>
           /\ StatementRaised("WabbitTypeError")
           /\ i_out' = i_out]_vars

\* `'a' <= 1.5` has raised
C15_Witness ==
    /\ i_pc = "raised"
    /\ i_exc = "WabbitTypeError"
    /\ i_out = <<>>
    /\ NextNode = PrintOf(LogicalOp(NoLocation, <<"<", "=">>, Character(NoLocation, <<"a">>),
                                    Float(NoLocation, <<"1", ".", "5">>)))

\* the text of a literal's value
TextOf(literal) ==
    IF literal.kind = "Boolean"
    THEN (IF literal.value = True THEN <<"t", "r", "u", "e">>
          ELSE <<"f", "a", "l", "s", "e">>)
    ELSE literal.value

\* C16: print writes the text of its value and nothing after it; the text
\* of a boolean is `true` or `false`
C16_PrintWritesText ==
    [][/\ AtStatement
       /\ NextNode.kind = "PrintStatement"
       /\ NextNode.value.kind \in {"Boolean", "Integer", "Character"}
       => i_out' = Append(i_out, TextOf(NextNode.value))]_vars

\* C17: an assignment to a name that the current context does not bind
\* raises WabbitRuntimeError and binds nothing
C17_AssignmentToUnboundRaises ==
    [][/\ AtStatement
       /\ NextNode.kind = "ExprAsStatement"
       /\ NextNode.expr.kind = "Assignment"
       /\ ~Bound(NextNode.expr.left.value, GlobalCtx)
       => /\ StatementRaised("WabbitRuntimeError")
          /\ i_exec_ctx' = i_exec_ctx]_vars

\* the exceptions that derive from WabbitError, which runit reports
WabbitErrors == {"WabbitSyntaxError", "WabbitTypeError", "WabbitRuntimeError"}

\* C18: a call of an undefined function, a call with too many arguments, a
\* division by zero and the print of a call without a value raise one of
\* the WabbitError exceptions
C18_FailuresAreWabbitErrors ==
    i_pc = "raised" /\ i_prog \in { Block(nodes) : nodes \in FailurePrograms }
        => i_exc \in WabbitErrors

(***************************************************************************)
(* _compiler.py: Compiler, the emitter of LLVM IR.  A visit takes the node *)
(* and the state c it starts in and gives the state it ends in: exc is the *)
(* exception raised ("none" if none), val the IR value returned (its type  *)
(* is what the emitter looks at), variables the dict _current_variables    *)
(* (for each name the type its slot holds), functions the dict _functions, *)
(* builder the function _curr_builder builds into, instrs the instructions *)
(* built so far, blocks the basic blocks of the module in the order of     *)
(* their creation (the first is the block "main", the one after it is      *)
(* block_1, and so on), block the one _curr_builder is positioned at and   *)
(* main_block the one _main_builder is positioned at.  The visits of       *)
(* operators are not modelled: no program of this machine has them.        *)
(***************************************************************************)
TInt == "i32"

TFloat == "double"

TBool == "i1"

TChar == "i8"

\* an IR value of a type; None for a visit that returns nothing
Value(type) == [type |-> type]

EmitVal(c, val) == [c EXCEPT !.val = val]

EmitThrow(c, exc) == [c EXCEPT !.exc = exc, !.val = None]

\* IRBuilder._insert(instr): the instruction is appended to the block the
\* builder is positioned at, whether or not the block is terminated
Built(c, instr) ==
    [c EXCEPT !.instrs = Append(@, instr),
              !.blocks[c.block].ops = Append(@, [op |-> instr.op, targets |-> <<>>])]

\* the name of self._main_func, as a block records the function it belongs to
main_func == <<"main">>

Terminators == {"ret", "br", "cbr"}

\* Block.is_terminated
is_terminated(block) == \E i \in 1..Len(block.ops) : block.ops[i].op \in Terminators

\* IRBuilder._set_terminator(term): `assert not self.block.is_terminated`
set_terminator(c, instr, targets) ==
    IF is_terminated(c.blocks[c.block]) THEN EmitThrow(c, "AssertionError")
    ELSE [c EXCEPT !.instrs = Append(@, instr),
                   !.blocks[c.block].ops =
                       Append(@, [op |-> instr.op, targets |-> targets])]

\* func.append_basic_block(self._next_block_name()), n times
RECURSIVE next_block(_, _, _)
next_block(c, func, n) ==
    IF n = 0 THEN c
    ELSE next_block([c EXCEPT !.blocks = Append(@, [fn |-> func, ops |-> <<>>])],
                    func, n - 1)

\* IRBuilder.position_at_end(block)
position_at_end(c, block) ==
    [c EXCEPT !.block = block,
              !.main_block = IF c.builder = "main" THEN block ELSE @]

\* IRBuilder.branch(target)
branch(c, target) ==
    set_terminator(c, [op |-> "br", fn |-> c.builder], <<target>>)

\* IRBuilder.cbranch(cond, truebr, falsebr)
cbranch(c, truebr, falsebr) ==
    set_terminator(c, [op |-> "cbr", fn |-> c.builder], <<truebr, falsebr>>)

\* IRBuilder.alloca(typ, name): a slot for a value of typ
alloca(c, typ, name) ==
    Built(c, [op |-> "alloca", fn |-> c.builder, type |-> typ, name |-> name])

\* IRBuilder.store(value, ptr): llvmlite raises TypeError unless the slot
\* holds the type of the value
store(c, value, slot_type) ==
    IF slot_type # value.type THEN EmitThrow(c, "TypeError")
    ELSE Built(c, [op |-> "store", fn |-> c.builder, type |-> value.type,
                   slot |-> slot_type])

\* IRBuilder.load(ptr)
load(c, slot_type) ==
    EmitVal(Built(c, [op |-> "load", fn |-> c.builder, type |-> slot_type]),
            Value(slot_type))

\* IRBuilder.call(fn, args)
call(c, callee, ret_type) ==
    EmitVal(Built(c, [op |-> "call", fn |-> c.builder, callee |-> callee]),
            Value(ret_type))

\* IRBuilder.ret(value)
ret(c, value) ==
    Then(set_terminator(c, [op |-> "ret", fn |-> c.builder, type |-> value.type],
                        <<>>),
         LAMBDA done : EmitVal(done, Value("void")))

RECURSIVE Compiler_visit(_, _)

Compiler_visit_Integer(node, c) == EmitVal(c, Value(TInt))

Compiler_visit_Float(node, c) == EmitVal(c, Value(TFloat))

Compiler_visit_Boolean(node, c) == EmitVal(c, Value(TBool))

Compiler_visit_Character(node, c) == EmitVal(c, Value(TChar))

Compiler_visit_PrintStatement(node, c) ==
    Then(Compiler_visit(node.value, c), LAMBDA res :
         IF res.val = None THEN EmitThrow(res, "AttributeError")
         ELSE IF res.val.type = TInt
         THEN EmitVal(call(res, "__wabbit_print_int", "void"), None)
         ELSE IF res.val.type = TFloat
         THEN EmitVal(call(res, "__wabbit_print_float", "void"), None)
         ELSE IF res.val.type = TBool
         THEN EmitVal(call(res, "__wabbit_print_bool", "void"), None)
         ELSE IF res.val.type = TChar
         THEN EmitVal(call(res, "__wabbit_print_char", "void"), None)
         ELSE EmitVal(res, None))

\* the zero of the declared type
Compiler_default_var_type(node) ==
    IF node.type_ = NoneNode THEN Raises("AssertionError")
    ELSE CASE node.type_.name = <<"i", "n", "t">> -> Returns(Value(TInt))
           [] node.type_.name = <<"f", "l", "o", "a", "t">> -> Returns(Value(TFloat))
           [] node.type_.name = <<"b", "o", "o", "l">> -> Returns(Value(TBool))
           [] node.type_.name = <<"c", "h", "a", "r">> -> Returns(Value(TChar))
           [] OTHER -> Raises("AssertionError")

Compiler_var_type(node) ==
    IF node = NoneNode THEN Raises("AssertionError")
    ELSE CASE node.name = <<"i", "n", "t">> -> Returns(TInt)
           [] node.name = <<"f", "l", "o", "a", "t">> -> Returns(TFloat)
           [] node.name = <<"b", "o", "o", "l">> -> Returns(TBool)
           [] node.name = <<"c", "h", "a", "r">> -> Returns(TChar)
           [] OTHER -> Raises("AssertionError")

\* self._current_variables[var_name] = var; outside of a function definition
\* _current_variables is the dict _global_variables itself
Bind(c, var_name, slot_type) ==
    [c EXCEPT !.variables = (var_name :> slot_type) @@ @,
              !.global_variables = IF c.builder = "main"
                                   THEN (var_name :> slot_type) @@ @ ELSE @,
              !.val = None]

\* self._curr_builder.store(val, var); self._current_variables[var_name] = var
StoreAndBind(c, val, slot_type, var_name) ==
    Then(store(c, val, slot_type), LAMBDA stored : Bind(stored, var_name, slot_type))

\* with a value: `if int .. elif float .. elif char ..` allocates, and then
\* `if bool .. else: assert False`; without one: the slot that
\* `match node.type_` allocates, which for char is a slot of _TBool
Compiler_visit_VarDecl(node, c) ==
    IF node.value # NoneNode
    THEN Then(Compiler_visit(node.value, c), LAMBDA val :
              LET first == IF val.val.type \in {TInt, TFloat, TChar}
                           THEN alloca(val, val.val.type, node.name.value)
                           ELSE val
              IN  IF val.val.type = TBool
                  THEN StoreAndBind(alloca(first, TBool, node.name.value), val.val,
                                    TBool, node.name.value)
                  ELSE EmitThrow(first, "AssertionError"))
    ELSE LET val == Compiler_default_var_type(node)
         IN  IF val.exc # "none" THEN EmitThrow(c, val.exc)
             ELSE LET slot_type == IF val.val.type = TChar THEN TBool ELSE val.val.type
                  IN  StoreAndBind(alloca(c, slot_type, node.name.value), val.val,
                                   slot_type, node.name.value)

\* `if int .. elif float .. elif char .. else: assert False`
Compiler_visit_ConstDecl(node, c) ==
    Then(Compiler_visit(node.value, c), LAMBDA val :
         IF val.val.type \in {TInt, TFloat, TChar}
         THEN StoreAndBind(alloca(val, val.val.type, node.name.value), val.val,
                           val.val.type, node.name.value)
         ELSE EmitThrow(val, "AssertionError"))

\* the dict lookup self._current_variables[node.value]
Compiler_visit_Name(node, c) ==
    IF node.value \notin DOMAIN c.variables THEN EmitThrow(c, "KeyError")
    ELSE load(c, c.variables[node.value])

Compiler_visit_Assignment(node, c) ==
    IF node.left.kind # "Name" THEN EmitThrow(c, "AssertionError")
    ELSE Then(Compiler_visit(node.right, c), LAMBDA value :
              IF node.left.value \notin DOMAIN value.variables
              THEN EmitThrow(value, "KeyError")
              ELSE EmitVal(store(value, value.val, value.variables[node.left.value]),
                           value.val))

RECURSIVE Compiler_Statements_loop(_, _, _)
Compiler_Statements_loop(nodes, i, c) ==
    IF i > Len(nodes) THEN EmitVal(c, None)
    ELSE Then(Compiler_visit(nodes[i], c), LAMBDA res :
              Compiler_Statements_loop(nodes, i + 1, res))

Compiler_visit_Statements(node, c) == Compiler_Statements_loop(node.nodes, 1, c)

Compiler_visit_ExprAsStatement(node, c) ==
    Then(Compiler_visit(node.expr, c), LAMBDA res : EmitVal(res, None))

Compiler_visit_Return(node, c) ==
    Then(Compiler_visit(node.value, c), LAMBDA expr : ret(expr, expr.val))

\* `for i, arg in enumerate(f.args)`: a slot for each parameter
RECURSIVE FuncDef_args_loop(_, _, _, _)
FuncDef_args_loop(func_def, arg_types, i, c) ==
    IF i > Len(arg_types) THEN c
    ELSE FuncDef_args_loop(
             func_def, arg_types, i + 1,
             StoreAndBind(alloca(c, arg_types[i], func_def.args[i].name.value),
                          Value(arg_types[i]), arg_types[i],
                          func_def.args[i].name.value))

\* the function is entered into _functions after its body has been visited
Compiler_visit_FuncDef(func_def, c) ==
    LET arg_types == [i \in 1..Len(func_def.args) |->
                          Compiler_var_type(func_def.args[i].type_)]
        ret_type == Compiler_var_type(func_def.return_type)
        func_name == func_def.name.value
    IN  IF FirstException(arg_types) # "none" THEN EmitThrow(c, FirstException(arg_types))
        ELSE IF ret_type.exc # "none" THEN EmitThrow(c, ret_type.exc)
        ELSE Then(Compiler_visit(
                      func_def.body,
                      FuncDef_args_loop(func_def,
                                        [i \in 1..Len(arg_types) |-> arg_types[i].val], 1,
                                        [next_block(c, func_name, 1)
                                             EXCEPT !.builder = func_name,
                                                    !.block = Len(c.blocks) + 1,
                                                    !.variables = <<>>])),
                  LAMBDA body :
                      [body EXCEPT !.functions =
                                       (func_name :>
                                            [ret_type |-> ret_type.val,
                                             arg_types |-> [i \in 1..Len(arg_types) |->
                                                                arg_types[i].val]]) @@ @,
                                   !.builder = "main",
                                   !.block = body.main_block,
                                   !.variables = body.global_variables,
                                   !.val = None])

\* `args = [self.visit(a) for a in node.args]`; the value of the state is
\* the list of the values so far
RECURSIVE Compiler_FuncCall_args_loop(_, _, _)
Compiler_FuncCall_args_loop(node, i, c) ==
    IF i > Len(node.args) THEN c
    ELSE Then(Compiler_visit(node.args[i], EmitVal(c, c.val)), LAMBDA a :
              Compiler_FuncCall_args_loop(node, i + 1, EmitVal(a, Append(c.val, a.val))))

\* IRBuilder.call: llvmlite reads args[i] for each parameter (IndexError if
\* there are fewer arguments) and raises TypeError for an argument of
\* another type than the parameter
Compiler_visit_FuncCall(node, c) ==
    IF node.name.value \notin DOMAIN c.functions THEN EmitThrow(c, "KeyError")
    ELSE LET func == c.functions[node.name.value]
         IN  Then(Compiler_FuncCall_args_loop(node, 1, EmitVal(c, <<>>)), LAMBDA args :
                  IF Len(args.val) < Len(func.arg_types) THEN EmitThrow(args, "IndexError")
                  ELSE IF \E i \in 1..Len(func.arg_types) :
                              args.val[i].type # func.arg_types[i]
                  THEN EmitThrow(args, "TypeError")
                  ELSE call(args, node.name.value, func.ret_type))

\* the blocks are appended to _main_func, whatever function is being built
Compiler_visit_IfElse(node, c) ==
    Then(Compiler_visit(node.test, c), LAMBDA test_res :
    Then(cbranch(next_block(test_res, main_func,
                            IF node.else_body # NoneNode THEN 3 ELSE 2),
                 Len(test_res.blocks) + 1, Len(test_res.blocks) + 2),
         LAMBDA branched :
    Then(Compiler_visit(node.body,
                        position_at_end(branched, Len(test_res.blocks) + 1)),
         LAMBDA body :
    Then(branch(body, Len(branched.blocks)), LAMBDA then_done :
    Then(IF node.else_body # NoneNode
         THEN Then(Compiler_visit(node.else_body,
                                  position_at_end(then_done, Len(test_res.blocks) + 2)),
                   LAMBDA else_body : branch(else_body, Len(branched.blocks)))
         ELSE then_done,
         LAMBDA arms :
             EmitVal(position_at_end(arms, Len(branched.blocks)), None))))))

\* loop_body_block, loop_exit_block and loop_test_block, in this order, are
\* appended to _main_func
Compiler_visit_While(node, c) ==
    Then(branch(next_block(c, main_func, 3), Len(c.blocks) + 3), LAMBDA entered :
    Then(Compiler_visit(node.test, position_at_end(entered, Len(c.blocks) + 3)),
         LAMBDA test_res :
    Then(cbranch(test_res, Len(c.blocks) + 1, Len(c.blocks) + 2), LAMBDA branched :
    Then(Compiler_visit(node.body, position_at_end(branched, Len(c.blocks) + 1)),
         LAMBDA body :
    Then(branch(body, Len(c.blocks) + 3), LAMBDA looped :
         EmitVal(position_at_end(looped, Len(c.blocks) + 2), None))))))

\* Visitor.visit
Compiler_visit(node, c) ==
    CASE node.kind = "Integer" -> Compiler_visit_Integer(node, c)
      [] node.kind = "Float" -> Compiler_visit_Float(node, c)
      [] node.kind = "Boolean" -> Compiler_visit_Boolean(node, c)
      [] node.kind = "Character" -> Compiler_visit_Character(node, c)
      [] node.kind = "Name" -> Compiler_visit_Name(node, c)
      [] node.kind = "PrintStatement" -> Compiler_visit_PrintStatement(node, c)
      [] node.kind = "VarDecl" -> Compiler_visit_VarDecl(node, c)
      [] node.kind = "ConstDecl" -> Compiler_visit_ConstDecl(node, c)
      [] node.kind = "Assignment" -> Compiler_visit_Assignment(node, c)
      [] node.kind = "Statements" -> Compiler_visit_Statements(node, c)
      [] node.kind = "ExprAsStatement" -> Compiler_visit_ExprAsStatement(node, c)
      [] node.kind = "FuncDef" -> Compiler_visit_FuncDef(node, c)
      [] node.kind = "FuncCall" -> Compiler_visit_FuncCall(node, c)
      [] node.kind = "Return" -> Compiler_visit_Return(node, c)
      [] node.kind = "IfElse" -> Compiler_visit_IfElse(node, c)
      [] node.kind = "While" -> Compiler_visit_While(node, c)

(***************************************************************************)
(* compile.py: the emitter as a state machine.  compiler.visit(ast) visits *)
(* the statements of the root block one by one; to_llvm closes main.       *)
(***************************************************************************)
TypeOf(name) == Type(NoLocation, name)

\* a literal of each type, with the name of its type
TypedLiterals ==
    { <<IntegerLiteral("1"), <<"i", "n", "t">> >>,
      <<Float(NoLocation, <<"1", ".", "5">>), <<"f", "l", "o", "a", "t">> >>,
      <<Boolean(NoLocation, True), <<"b", "o", "o", "l">> >>,
      <<Character(NoLocation, <<"a">>), <<"c", "h", "a", "r">> >> }

\* var n = v;   var n T;   var n T = v;   const n = v;   const n T = v;
TypedDeclarations(name) ==
    UNION { { VarDecl(NoLocation, Variable(name), l[1], NoneNode),
              VarDecl(NoLocation, Variable(name), NoneNode, TypeOf(l[2])),
              VarDecl(NoLocation, Variable(name), l[1], TypeOf(l[2])),
              ConstDecl(NoLocation, Variable(name), l[1], NoneNode),
              ConstDecl(NoLocation, Variable(name), l[1], TypeOf(l[2])) }
            : l \in TypedLiterals }

\* <declaration of x>  [declaration of y]  print x;
DeclarationPrograms ==
    { << d, PrintOf(Variable("x")) >> : d \in TypedDeclarations("x") }
    \cup { << d, e, PrintOf(Variable("x")) >> :
               d \in TypedDeclarations("x"),
               e \in { VarDecl(NoLocation, Variable("y"), NoneNode, IntType),
                       ConstDecl(NoLocation, Variable("y"), IntegerLiteral("2"), NoneNode),
                       ExprAsStatement(Assignment(NoLocation, Variable("x"),
                                                  Variable("x"))) } }

\* func f() int { return f(); }                  (recursion, never called)
\* func f() int { return 1; }  print f();
RecursionPrograms ==
    { << FunctionReturning(<<>>, FuncCall(NoLocation, Variable("f"), <<>>)) >>,
      << FunctionReturning(<<>>, IntegerLiteral("1")),
         PrintOf(FuncCall(NoLocation, Variable("f"), <<>>)) >> }

BooleanLiteral(value) == Boolean(NoLocation, value)

ReturnOf(digit) == Return(NoLocation, IntegerLiteral(digit))

\* if <test> { <body> } [else { <else_body> }] and while <test> { <body> }
\* with bodies of one statement
BranchingStatements(first, second) ==
    { IfElse(NoLocation, BooleanLiteral(test), Block(<<first>>), else_body) :
          test \in {True, False}, else_body \in {NoneNode, Block(<<second>>)} }
    \cup { While(NoLocation, BooleanLiteral(test), Block(<<first>>)) :
               test \in {True, False} }

\* the bodies of a function: a return, no return, a statement after the
\* return, and an if or a while before the return whose body prints or
\* returns
ControlBodies ==
    { << ReturnOf("1") >>,
      << PrintOf(IntegerLiteral("3")) >>,
      << ReturnOf("1"), PrintOf(IntegerLiteral("3")) >> }
    \cup { << s, ReturnOf("2") >> :
               s \in BranchingStatements(PrintOf(IntegerLiteral("3")),
                                         PrintOf(IntegerLiteral("4")))
                     \cup BranchingStatements(ReturnOf("1"),
                                              PrintOf(IntegerLiteral("4"))) }

\* <if or while>  print 2;
\* while <test> { if <test> { print 1; } }
\* func f() int { <body> }  [print f();]
ControlPrograms ==
    { << s, PrintOf(IntegerLiteral("2")) >> :
          s \in BranchingStatements(PrintOf(IntegerLiteral("1")),
                                    PrintOf(IntegerLiteral("3"))) }
    \cup { << While(NoLocation, BooleanLiteral(test), Block(<<s>>)) >> :
               test \in {False},
               s \in BranchingStatements(PrintOf(IntegerLiteral("1")),
                                         PrintOf(IntegerLiteral("3"))) }
    \cup { << FuncDef(NoLocation, Variable("f"), <<>>, IntType, Block(body)) >> \o use :
               body \in ControlBodies,
               use \in { <<>>, << PrintOf(CallOf("f", <<>>)) >> } }

EmitPrograms ==
    { Block(nodes) : nodes \in DeclarationPrograms \cup RecursionPrograms
                                   \cup ScopePrograms \cup PrintPrograms
                                   \cup ControlPrograms }

\* Compiler(): no variables, no functions, the builder of main at the end of
\* the block "main" of the function main
EmitInit ==
    /\ e_prog \in EmitPrograms
    /\ e_next = 1
    /\ e_pc = "running"
    /\ e_variables = <<>>
    /\ e_functions = <<>>
    /\ e_instrs = <<>>
    /\ e_exc = "none"
    /\ e_blocks = << [fn |-> main_func, ops |-> <<>>] >>
    /\ e_main_block = 1
    /\ LexIdle
    /\ ParserIdle
    /\ RoundTripIdle
    /\ InterpIdle
    /\ FormatIdle
    /\ AstIdle

EmitState ==
    [exc |-> e_exc, val |-> None, variables |-> e_variables,
     global_variables |-> e_variables, functions |-> e_functions,
     builder |-> "main", instrs |-> e_instrs, blocks |-> e_blocks,
     block |-> e_main_block, main_block |-> e_main_block]

\* `self.visit(n)` of the root block's loop
EmitVisitNext == Compiler_visit(e_prog.nodes[e_next], EmitState)

EmitApply(c) ==
    /\ e_variables' = c.global_variables
    /\ e_functions' = c.functions
    /\ e_instrs' = c.instrs
    /\ e_exc' = c.exc
    /\ e_blocks' = c.blocks
    /\ e_main_block' = c.main_block
    /\ UNCHANGED <<e_prog, lexVars, parserVars, roundTripVars, interpVars,
                   formatVars, astVars>>

\* the next top-level statement is emitted
EmitStatement ==
    /\ e_pc = "running"
    /\ e_next <= Len(e_prog.nodes)
    /\ IsOk(EmitVisitNext)
    /\ e_next' = e_next + 1
    /\ e_pc' = "running"
    /\ EmitApply(EmitVisitNext)

\* the emission of the next top-level statement raises
EmitRaises ==
    /\ e_pc = "running"
    /\ e_next <= Len(e_prog.nodes)
    /\ ~IsOk(EmitVisitNext)
    /\ e_next' = e_next
    /\ e_pc' = "raised"
    /\ EmitApply(EmitVisitNext)

\* to_llvm: main returns 0
to_llvm ==
    /\ e_pc = "running"
    /\ e_next > Len(e_prog.nodes)
    /\ e_pc' = "returned"
    /\ EmitApply(ret(EmitState, Value(TInt)))
    /\ e_next' = e_next

EmitNext == EmitStatement \/ EmitRaises \/ to_llvm

SpecEmit == EmitInit /\ [][EmitNext]_vars

(***************************************************************************)
(* Declarations in the emitter, and the emitter against the interpreter.   *)
(***************************************************************************)
\* the emitter is about to visit its next statement, EmitNode
AtEmission == e_pc = "running" /\ e_next <= Len(e_prog.nodes)

EmitNode == e_prog.nodes[e_next]

\* the IR type of a type name, and of a literal
IRType(name) ==
    CASE name = <<"i", "n", "t">> -> "i32"
      [] name = <<"f", "l", "o", "a", "t">> -> "double"
      [] name = <<"b", "o", "o", "l">> -> "i1"
      [] name = <<"c", "h", "a", "r">> -> "i8"

LiteralType(literal) ==
    CASE literal.kind = "Integer" -> "i32"
      [] literal.kind = "Float" -> "double"
      [] literal.kind = "Boolean" -> "i1"
      [] literal.kind = "Character" -> "i8"

\* the IR type of what a declaration declares
DeclaredIRType(decl) ==
    IF decl.type_ # NoneNode THEN IRType(decl.type_.name) ELSE LiteralType(decl.value)

\* C19: a VarDecl or ConstDecl of each of int, float, bool and char, with
\* an initializer or (for a VarDecl) without one, is emitted as an alloca
\* of the IR type of the declared type followed by a store of a value of
\* that type into that slot; the emission does not raise
C19_DeclarationEmitsAllocaAndStore ==
    [][/\ AtEmission
       /\ EmitNode.kind \in {"VarDecl", "ConstDecl"}
       /\ EmitNode.value = NoneNode \/ EmitNode.value \in Literals
       => /\ e_pc' = "running"
          /\ e_instrs' = e_instrs \o
                 << [op |-> "alloca", fn |-> "main", type |-> DeclaredIRType(EmitNode),
                     name |-> EmitNode.name.value],
                    [op |-> "store", fn |-> "main", type |-> DeclaredIRType(EmitNode),
                     slot |-> DeclaredIRType(EmitNode)] >>]_vars

\* interpret(ast): _Interpreter().visit(ast)
interpret(ast) ==
    Interpreter_visit(ast, [exc |-> "none", val |-> None,
                            exec_ctx |-> << ExecCtx(<<>>) >>, functions |-> <<>>,
                            out |-> <<>>, trace |-> <<>>])

\* C20: the emission of a program raises only if the interpretation of
\* the same program raises; in particular the emission of a function whose
\* body calls the function itself does not raise
C20_EmitterAcceptsWhatInterpreterRuns ==
    e_pc = "raised" => ~IsOk(interpret(e_prog))

(***************************************************************************)
(* The formatter of the inner package, wabbit/wabbit/_format.py, which     *)
(* wabbit/wabbit/__main__.py imports.  Its visitor derives from the        *)
(* Visitor of wabbit/wabbit/_ast.py, whose visit_ConstDecl and             *)
(* visit_ExprAsStatement raise RuntimeError("Not implemented") and are not *)
(* overridden; visit_VarDecl reads node.specifier, an attribute VarDecl    *)
(* does not have.  A visit returns a text or raises.                       *)
(***************************************************************************)
Str(txt) == [exc |-> "none", text |-> txt]

FormatRaise(exc) == [exc |-> exc, text |-> <<>>]

\* the parts of an f-string or of a list, evaluated left to right: the first
\* part that raises ends the evaluation
RECURSIVE Glue(_, _)
Glue(sep, parts) ==
    IF Len(parts) = 0 THEN Str(<<>>)
    ELSE IF parts[1].exc # "none" THEN parts[1]
    ELSE IF Len(parts) = 1 THEN parts[1]
    ELSE LET rest == Glue(sep, Tail(parts))
         IN  IF rest.exc # "none" THEN rest
             ELSE Str(parts[1].text \o sep \o rest.text)

IndentResult(r, lvl) == IF r.exc # "none" THEN r ELSE Str(indent(r.text, lvl))

RECURSIVE wabbit_FormatVisitor_visit(_, _)
wabbit_FormatVisitor_visit(node, lvl) ==
    CASE node.kind = "Integer" -> Str(node.value)
      [] node.kind = "Float" -> Str(node.value)
      [] node.kind = "Boolean" ->
            Str(IF node.value = True THEN <<"t", "r", "u", "e">> ELSE <<"f", "a", "l", "s", "e">>)
      [] node.kind = "Name" -> Str(node.value)
      [] node.kind = "PrintStatement" ->
            Glue(<<>>, << Str(<<"p", "r", "i", "n", "t", " ">>), wabbit_FormatVisitor_visit(node.value, lvl),
                          Str(<<";">>) >>)
      [] node.kind = "Break" -> Str(<<"b", "r", "e", "a", "k", ";">>)
      [] node.kind = "Continue" -> Str(<<"c", "o", "n", "t", "i", "n", "u", "e", ";">>)
      [] node.kind \in {"BinOp", "LogicalOp"} ->
            Glue(<<>>, << wabbit_FormatVisitor_visit(node.left, lvl),
                          Str(<<" ">> \o node.operation \o <<" ">>),
                          wabbit_FormatVisitor_visit(node.right, lvl) >>)
      [] node.kind = "UnaryOp" ->
            Glue(<<>>, << Str(node.operation),
                          wabbit_FormatVisitor_visit(node.operand, lvl) >>)
      [] node.kind = "ParenExpr" ->
            Glue(<<>>, << Str(<<"(">>), wabbit_FormatVisitor_visit(node.value, lvl),
                          Str(<<")">>) >>)
      [] node.kind = "Assignment" ->
            Glue(<<>>, << wabbit_FormatVisitor_visit(node.left, lvl), Str(<<" ", "=", " ">>),
                          wabbit_FormatVisitor_visit(node.right, lvl), Str(<<";">>) >>)
      [] node.kind = "VarDecl" -> FormatRaise("AttributeError")
      [] node.kind \in {"ConstDecl", "ExprAsStatement"} -> FormatRaise("RuntimeError")
      [] node.kind = "Statements" ->
            Glue(<<"\n">>,
                 [i \in 1..Len(node.nodes) |->
                      IndentResult(wabbit_FormatVisitor_visit(node.nodes[i], lvl), lvl)])
      [] node.kind = "IfElse" ->
            Glue(<<"\n">>,
                 << Glue(<<>>, << Str(<<"i", "f", " ">>), wabbit_FormatVisitor_visit(node.test, lvl),
                                  Str(<<" ", "{">>) >>),
                    wabbit_FormatVisitor_visit(node.body, lvl + 1) >>
                 \o (IF node.else_body # NoneNode
                     THEN << Str(indent(<<"}", " ", "e", "l", "s", "e", " ", "{">>, lvl)),
                             wabbit_FormatVisitor_visit(node.else_body, lvl + 1) >>
                     ELSE <<>>)
                 \o << Str(indent(<<"}">>, lvl)) >>)
      [] node.kind = "While" ->
            Glue(<<"\n">>,
                 << Glue(<<>>, << Str(<<"w", "h", "i", "l", "e", " ">>),
                                  wabbit_FormatVisitor_visit(node.test, lvl),
                                  Str(<<" ", "{">>) >>),
                    wabbit_FormatVisitor_visit(node.body, lvl + 1),
                    Str(<<"}">>) >>)
      [] node.kind = "FuncDef" ->
            Glue(<<"\n">>,
                 << Glue(<<>>,
                         << Str(<<"f", "u", "n", "c", " ">> \o node.name.value \o <<"(">>),
                            Glue(<<",", " ">>,
                                 [i \in 1..Len(node.args) |->
                                      wabbit_FormatVisitor_visit(node.args[i], lvl)]),
                            Str(<<")", " ">> \o node.return_type.name \o <<" ", "{">>) >>),
                    wabbit_FormatVisitor_visit(node.body, lvl + 1),
                    Str(<<"}">>) >>)
      [] node.kind = "FuncArg" ->
            Str(node.name.value \o <<" ">> \o node.type_.name)
      [] node.kind = "Return" ->
            Glue(<<>>, << Str(<<"r", "e", "t", "u", "r", "n", " ">>), wabbit_FormatVisitor_visit(node.value, lvl),
                          Str(<<";">>) >>)
      [] node.kind = "FuncCall" ->
            Glue(<<>>,
                 << Str(node.name.value \o <<"(">>),
                    Glue(<<",", " ">>,
                         [i \in 1..Len(node.args) |->
                              wabbit_FormatVisitor_visit(node.args[i], lvl)]),
                    Str(<<")">>) >>)
      [] OTHER -> FormatRaise("AssertionError")

\* format(node) of wabbit/wabbit/_format.py
wabbit_format(node) == wabbit_FormatVisitor_visit(node, 0)

(***************************************************************************)
(* format as a state machine: format is called on a tree by one of the two *)
(* packages and returns its text or raises.                                *)
(***************************************************************************)
\* the deepest nesting of compound statements in a formatted tree
MaxDepth == 2

FormatPackages == {"wabbit", "wabbit.wabbit"}

\* x = 1
AssignmentOf(name, expr) == Assignment(NoLocation, Variable(name), expr)

\* a = b = 1
ChainedAssignment ==
    AssignmentOf("a", AssignmentOf("b", IntegerLiteral("1")))

SimpleStatements ==
    { PrintOf(IntegerLiteral("1")),
      VarDecl(NoLocation, Variable("x"), IntegerLiteral("1"), NoneNode),
      ConstDecl(NoLocation, Variable("c"), IntegerLiteral("1"), NoneNode),
      Return(NoLocation, IntegerLiteral("1")),
      Break(NoLocation),
      Continue(NoLocation),
      ExprAsStatement(AssignmentOf("x", IntegerLiteral("1"))),
      ExprAsStatement(ChainedAssignment) }

\* the bodies made of one statement of S, alone or followed by continue;
FormatBodies(S) ==
    { <<s>> : s \in S } \cup { <<s, Continue(NoLocation)>> : s \in S }

\* the compound statements whose body is one of bodies
CompoundStatements(bodies) ==
    LET test == Variable("t")
    IN  { While(NoLocation, test, Block(b)) : b \in bodies }
        \cup { IfElse(NoLocation, test, Block(b), NoneNode) : b \in bodies }
        \cup { IfElse(NoLocation, test, Block(<<Break(NoLocation)>>), Block(b)) :
                   b \in bodies }
        \cup { FuncDef(NoLocation, Variable("f"), <<>>, IntType, Block(b)) :
                   b \in bodies }

\* the statements that nest compound statements at most d deep
RECURSIVE StatementsNested(_)
StatementsNested(d) ==
    IF d = 0 THEN SimpleStatements
    ELSE LET inner == StatementsNested(d - 1)
         IN  inner \cup CompoundStatements(FormatBodies(inner))

\* what format is called on: a program, or a bare assignment as in the
\* package's own test cases
FormatInputs ==
    { Block(b) : b \in FormatBodies(StatementsNested(MaxDepth)) }
    \cup { AssignmentOf("x", IntegerLiteral("1")), ChainedAssignment }

FormatInit ==
    /\ f_node \in FormatInputs
    /\ f_package \in FormatPackages
    /\ f_pc = "called"
    /\ f_text = <<>>
    /\ LexIdle
    /\ ParserIdle
    /\ RoundTripIdle
    /\ InterpIdle
    /\ EmitIdle
    /\ AstIdle

\* format(node) of the package
FormatResult(package, node) ==
    IF package = "wabbit" THEN Str(format(node)) ELSE wabbit_format(node)

FormatReturns ==
    /\ f_pc = "called"
    /\ FormatResult(f_package, f_node).exc = "none"
    /\ f_text' = FormatResult(f_package, f_node).text
    /\ f_pc' = "returned"
    /\ UNCHANGED <<f_node, f_package, lexVars, parserVars, roundTripVars,
                   interpVars, emitVars, astVars>>

FormatRaises ==
    /\ f_pc = "called"
    /\ FormatResult(f_package, f_node).exc # "none"
    /\ f_pc' = "raised"
    /\ UNCHANGED <<f_node, f_package, f_text, lexVars, parserVars, roundTripVars,
                   interpVars, emitVars, astVars>>

FormatNext == FormatReturns \/ FormatRaises

SpecFormat == FormatInit /\ [][FormatNext]_vars

\* text.split("\n")
RECURSIVE SplitLines(_)
SplitLines(txt) ==
    LET n == Find(txt, <<"\n">>, 0)
    IN  IF n < 0 THEN <<txt>>
        ELSE <<Slice(txt, 0, n)>> \o SplitLines(SliceFrom(txt, n + 1))

\* the number of blanks a line starts with
RECURSIVE LeadingBlanks(_)
LeadingBlanks(line) ==
    IF line # <<>> /\ Head(line) = " " THEN 1 + LeadingBlanks(Tail(line)) ELSE 0

Opens(line) == line # <<>> /\ line[Len(line)] = "{"

Closes(line) ==
    LeadingBlanks(line) < Len(line) /\ line[LeadingBlanks(line) + 1] = "}"

\* the nesting depth of line i: the blocks opened before it and not closed
\* up to it (a closing brace stands at the depth of the statement it closes)
DepthOfLine(lines, i) ==
    Cardinality({ j \in 1..(i - 1) : Opens(lines[j]) })
        - Cardinality({ j \in 1..i : Closes(lines[j]) })

\* C21: every line of the formatted text of a statement at nesting depth d
\* starts with exactly 4 * d blanks, the closing brace of a nested while or
\* if included.
C21_LinesIndentedByDepth ==
    f_pc = "returned" =>
        LET lines == SplitLines(f_text)
        IN  \A i \in 1..Len(lines) :
                LeadingBlanks(lines[i]) = INDENT_SPACES * DepthOfLine(lines, i)

\* the statements of a tree, and the assignments in expression position
RECURSIVE PartsOf(_)
PartsOf(node) ==
    CASE node.kind = "Statements" ->
            UNION { PartsOf(node.nodes[i]) : i \in 1..Len(node.nodes) }
      [] node.kind \in {"While", "FuncDef"} -> {node} \cup PartsOf(node.body)
      [] node.kind = "IfElse" ->
            {node} \cup PartsOf(node.body)
                \cup (IF node.else_body # NoneNode THEN PartsOf(node.else_body)
                      ELSE {})
      [] node.kind = "ExprAsStatement" -> {node} \cup PartsOf(node.expr)
      [] node.kind = "Assignment" -> {node} \cup PartsOf(node.right)
      [] node.kind \in {"PrintStatement", "VarDecl", "ConstDecl", "Return",
                        "Break", "Continue"} -> {node}
      [] OTHER -> {}

Semicolons(txt) == Cardinality({ i \in 1..Len(txt) : txt[i] = ";" })

SimpleKinds ==
    {"PrintStatement", "VarDecl", "ConstDecl", "Return", "Break", "Continue",
     "ExprAsStatement"}

CompoundKinds == {"While", "IfElse", "FuncDef"}

EndsAsSpecified(node, txt) ==
    /\ node.kind \in SimpleKinds => txt[Len(txt)] = ";" /\ Semicolons(txt) = 1
    /\ node.kind = "Assignment" => Semicolons(txt) = 0
    /\ node.kind \in CompoundKinds => txt[Len(txt)] = "}"

\* C22: a simple statement formats to a text that ends in exactly one
\* semicolon, an assignment in expression position adds no semicolon of its
\* own, and a compound statement ends in its closing brace.
C22_SemicolonEndsSimpleStatements ==
    f_pc = "returned" =>
        \A part \in PartsOf(f_node) :
            /\ FormatResult(f_package, part).exc = "none"
            /\ EndsAsSpecified(part, FormatResult(f_package, part).text)

(***************************************************************************)
(* The operator nodes of wabbit/wabbit/_ast.py.  The classes are pydantic  *)
(* models: the constructor validates the operation against the Literal     *)
(* type of the field and raises ValidationError when it is not one of the  *)
(* literals.                                                               *)
(***************************************************************************)
BinOp_operation == { <<"+">>, <<"-">>, <<"*">>, <<"/">> }

UnaryOp_operation == { <<"-">>, <<"!">> }

LogicalOp_operation == { <<"=", "=">>, <<">">>, <<"<">>, <<"&", "&">>, <<"|", "|">> }

\* cls(**fields): the node, or the validation error
Construct(class, fields) ==
    CASE class = "BinOp" ->
            IF fields.operation \in BinOp_operation
            THEN Ok(BinOp(NoLocation, fields.operation, fields.left, fields.right), 0)
            ELSE Raise("ValidationError", 0)
      [] class = "UnaryOp" ->
            IF fields.operation \in UnaryOp_operation
            THEN Ok(UnaryOp(NoLocation, fields.operation, fields.left), 0)
            ELSE Raise("ValidationError", 0)
      [] class = "LogicalOp" ->
            IF fields.operation \in LogicalOp_operation
            THEN Ok(LogicalOp(NoLocation, fields.operation, fields.left, fields.right), 0)
            ELSE Raise("ValidationError", 0)

\* the operators of the grammar, as the parser hands them to the constructors
\* (_parse_unaryop, _parse_logical_cmp_or_expr, _parse_and_or_expr,
\* _parse_or_or_expr), and the arithmetic ones
GrammarUnaryOperators == { <<"+">>, <<"-">>, <<"!">> }

GrammarLogicalOperators ==
    { <<"=", "=">>, <<"!", "=">>, <<"<">>, <<"<", "=">>, <<">">>, <<">", "=">>,
      <<"&", "&">>, <<"|", "|">> }

\* operators of no class of the grammar
ForeignOperators == { <<"%">>, <<"=">>, <<"~">>, <<"&">>, <<"|">>, <<"*", "*">> }

AstOperators ==
    GrammarUnaryOperators \cup GrammarLogicalOperators \cup BinOp_operation
        \cup ForeignOperators

AstOperands == { Variable("x"), IntegerLiteral("1"), Boolean(NoLocation, True) }

AstInit ==
    /\ a_class \in {"BinOp", "UnaryOp", "LogicalOp"}
    /\ a_fields \in [operation : AstOperators, left : AstOperands, right : AstOperands]
    /\ a_class = "UnaryOp" => a_fields.right = a_fields.left
    /\ a_pc = "called"
    /\ a_node = <<>>
    /\ LexIdle
    /\ ParserIdle
    /\ RoundTripIdle
    /\ InterpIdle
    /\ EmitIdle
    /\ FormatIdle

ConstructReturns ==
    /\ a_pc = "called"
    /\ IsOk(Construct(a_class, a_fields))
    /\ a_node' = Construct(a_class, a_fields).node
    /\ a_pc' = "returned"
    /\ UNCHANGED <<a_class, a_fields, lexVars, parserVars, roundTripVars,
                   interpVars, emitVars, formatVars>>

ConstructRaises ==
    /\ a_pc = "called"
    /\ ~IsOk(Construct(a_class, a_fields))
    /\ a_pc' = "raised"
    /\ UNCHANGED <<a_class, a_fields, a_node, lexVars, parserVars, roundTripVars,
                   interpVars, emitVars, formatVars>>

AstNext == ConstructReturns \/ ConstructRaises

SpecAst == AstInit /\ [][AstNext]_vars

\* C23: the AST model accepts UnaryOp with each of + - ! and LogicalOp with
\* each of == != < <= > >= && ||, and rejects every other operator.
C23_OperatorNodesAcceptGrammarOperators ==
    /\ a_class = "UnaryOp" =>
          IF a_fields.operation \in GrammarUnaryOperators
          THEN a_pc # "raised" ELSE a_pc # "returned"
    /\ a_class = "LogicalOp" =>
          IF a_fields.operation \in GrammarLogicalOperators
          THEN a_pc # "raised" ELSE a_pc # "returned"

(***************************************************************************)
(* Calls, constants and the scope of blocks.                               *)
(***************************************************************************)
\* `print f(args);` is about to run in the global context
PrintsCall ==
    /\ AtStatement
    /\ NextNode.kind = "PrintStatement"
    /\ NextNode.value.kind = "FuncCall"

\* the events the step adds to the record of execution
NewEvents == (Len(i_trace) + 1)..Len(i_trace')

GlobalCtxAfter == i_exec_ctx'[Len(i_exec_ctx')]

\* the argument at i is the last one that assigns to its name
LastAssignment(args, i) ==
    \A j \in (i + 1)..Len(args) : args[j].left.value # args[i].left.value

PrintsConstant ==
    /\ AtStatement
    /\ NextNode.kind = "PrintStatement"
    /\ NextNode.value.kind = "Name"
    /\ NextNode.value.value \in DOMAIN GlobalCtx.constants

\* C27: a constant keeps the value it was declared with, whatever runs
\* between its declaration and a read of it, and no context binds a name
\* both as a variable and as a constant.
C27_ConstantsAreImmutable ==
    [][/\ \A d \in 1..Len(i_exec_ctx') :
              DOMAIN i_exec_ctx'[d].variables \cap DOMAIN i_exec_ctx'[d].constants = {}
       /\ PrintsConstant =>
              i_out' = Append(i_out, str(GlobalCtx.constants[NextNode.value.value].value))
      ]_vars

\* the arguments of the call assign to nothing
PlainArguments(callf) ==
    \A i \in 1..Len(callf.args) : callf.args[i].kind \in {"Name", "Integer"}

\* the names the body of the function called assigns to or declares
RECURSIVE NamesWritten(_)
NamesWritten(nodes) ==
    IF nodes = <<>> THEN {}
    ELSE NamesWritten(Tail(nodes))
         \cup (CASE Head(nodes).kind = "ExprAsStatement"
                        /\ Head(nodes).expr.kind = "Assignment" ->
                       {Head(nodes).expr.left.value}
                 [] Head(nodes).kind \in {"VarDecl", "ConstDecl"} ->
                       {Head(nodes).name.value}
                 [] OTHER -> {})

IsDeclaration(node) == node.kind \in {"VarDecl", "ConstDecl"}

\* the while statement about to run tests `<name> < <digit>` and its body
\* ends with the declaration of a name that the global context does not bind
RunsDeclaringLoop ==
    /\ AtStatement
    /\ NextNode.kind = "While"
    /\ NextNode.test.kind = "LogicalOp"
    /\ NextNode.test.operation = <<"<">>
    /\ NextNode.test.left.kind = "Name"
    /\ NextNode.test.right.kind = "Integer"
    /\ Bound(NextNode.test.left.value, GlobalCtx)
    /\ Len(NextNode.body.nodes) = 2
    /\ NextNode.body.nodes[1] =
           ExprAsStatement(Assignment(NoLocation, NextNode.test.left,
                                      BinOp(NoLocation, <<"+">>, NextNode.test.left,
                                            IntegerLiteral("1"))))
    /\ IsDeclaration(NextNode.body.nodes[2])
    /\ ~Bound(NextNode.body.nodes[2].name.value, GlobalCtx)

\* the number of iterations the test of the loop allows
Iterations ==
    int(NextNode.test.right.value)
        - Binding(NextNode.test.left.value, GlobalCtx).value.v

\* the arm that the if statement about to run takes, or NoneNode
ArmTaken ==
    IF NextNode.test.value = True THEN NextNode.body ELSE NextNode.else_body

\* the if statement about to run takes an arm that is one declaration of a
\* name the global context does not bind
RunsDeclaringIf ==
    /\ AtStatement
    /\ NextNode.kind = "IfElse"
    /\ NextNode.test.kind = "Boolean"
    /\ ArmTaken # NoneNode
    /\ Len(ArmTaken.nodes) = 1
    /\ IsDeclaration(ArmTaken.nodes[1])
    /\ ~Bound(ArmTaken.nodes[1].name.value, GlobalCtx)

SpecLexerFair == LexInit /\ [][LexNext]_vars /\ WF_vars(LexNext)

\* an iteration of the loop raises, or moves the cursor forward by at least
\* one character; no step moves the cursor backwards
ScanStepAdvances ==
    /\ pos' >= pos
    /\ LexScanning =>
           \/ lex_pc' = "raised" /\ pos' = pos
           \/ lex_pc' = "scan" /\ pos' >= pos + 1

\* C30: tokenize terminates on every input: each iteration of its loop
\* raises or advances the cursor by at least one character, the cursor never
\* moves backwards, and the call returns or raises in the end.
C30_TokenizeTerminates ==
    /\ [][ScanStepAdvances]_vars
    /\ <>(lex_pc \in {"returned", "raised"})

\* tokenize has returned after a scan of several steps
C30_Witness ==
    /\ lex_pc = "returned"
    /\ pos = Len(text)
    /\ Len(tokens) >= 2
    /\ tokens[Len(tokens)].pos >= 1

(***************************************************************************)
(* Basic blocks: terminators and the function a block belongs to.          *)
(***************************************************************************)
\* the block ends with a terminator and holds no other terminator
WellTerminated(block) ==
    /\ block.ops # <<>>
    /\ block.ops[Len(block.ops)].op \in Terminators
    /\ \A i \in 1..(Len(block.ops) - 1) : block.ops[i].op \notin Terminators

\* the program is made of functions, ifs, whiles, returns, prints of integer
\* literals and calls of the function it defines
EmitsControlFlow == e_prog \in { Block(nodes) : nodes \in ControlPrograms }

\* C25: every basic block of the emitted module ends with exactly one
\* terminator and no instruction follows a terminator, also when an arm of
\* an if or the body of a while ends with a return, and for the entry block
\* of a function whose body executes no return.
C25_BlocksEndWithOneTerminator ==
    /\ EmitsControlFlow => e_pc # "raised"
    /\ e_pc = "returned" =>
           \A b \in 1..Len(e_blocks) : WellTerminated(e_blocks[b])

\* C26: the blocks created while the body of a function is emitted belong
\* to that function, and every branch targets a block of the function that
\* the branching block belongs to.
C26_BlocksBelongToTheirFunction ==
    [][/\ AtEmission /\ EmitNode.kind = "FuncDef" =>
              \A b \in (Len(e_blocks) + 1)..Len(e_blocks') :
                  e_blocks'[b].fn = EmitNode.name.value
       /\ \A b \in 1..Len(e_blocks') :
              \A i \in 1..Len(e_blocks'[b].ops) :
                  \A t \in 1..Len(e_blocks'[b].ops[i].targets) :
                      e_blocks'[e_blocks'[b].ops[i].targets[t]].fn = e_blocks'[b].fn
      ]_vars

====
